---- MODULE Spec2Model ----
(***************************************************************************)
(* Compare-Revisions: the paragraph / word diff of a resident report       *)
(* against the attending report (src/app.py).                              *)
(*                                                                         *)
(* A text is a sequence of one-character strings.  Indices into Python     *)
(* sequences are kept 0-based and ranges half-open, as in the source; the  *)
(* element at Python index i of a sequence s is s[i + 1].                  *)
(***************************************************************************)
EXTENDS Integers, Sequences, FiniteSets, TLC

\* ------------------------------------------------------------------------
\* Bounds of the model
\* ------------------------------------------------------------------------

\* Longest paragraph sequence of the one-word-paragraph inputs.
MaxParas == 3

\* Longest paragraph sequence of the inputs built from multi-word paragraphs.
MaxRichParas == 2

\* The raw texts given character by character have at most this many characters.
MaxRawLen == 5

\* The size bounds a caller is taken to set run from 0 to this many characters.
MaxSizeBound == 3

\* ------------------------------------------------------------------------
\* Python str helpers
\* ------------------------------------------------------------------------

\* The characters str.split(), str.strip() and the regex class \s treat as
\* white space (those a TLA+ string can name).
Whitespace == {" ", "\t", "\n", "\r", "\f"}

\* The line boundaries of str.splitlines() (those a TLA+ string can name).
LineBreaks == {"\n", "\r", "\f"}

RECURSIVE Concat(_)
\* "".join(parts)
Concat(parts) ==
    IF parts = <<>> THEN <<>> ELSE Head(parts) \o Concat(Tail(parts))

RECURSIVE Join(_, _)
\* sep.join(parts)
Join(sep, parts) ==
    IF parts = <<>> THEN <<>>
    ELSE IF Len(parts) = 1 THEN parts[1]
    ELSE parts[1] \o sep \o Join(sep, Tail(parts))

RECURSIVE ReplaceCRLF(_)
\* text.replace('\r\n', '\n')
ReplaceCRLF(s) ==
    IF s = <<>> THEN <<>>
    ELSE IF Len(s) >= 2 /\ s[1] = "\r" /\ s[2] = "\n"
         THEN <<"\n">> \o ReplaceCRLF(SubSeq(s, 3, Len(s)))
    ELSE <<s[1]>> \o ReplaceCRLF(Tail(s))

\* text.replace('\r', '\n')
ReplaceCR(s) == [i \in 1..Len(s) |-> IF s[i] = "\r" THEN "\n" ELSE s[i]]

RECURSIVE SplitOn(_, _)
\* text.split(ch): the pieces between the occurrences of ch, empty ones kept
SplitOn(s, ch) ==
    IF \A i \in 1..Len(s) : s[i] # ch THEN <<s>>
    ELSE LET i == CHOOSE i \in 1..Len(s) :
                      s[i] = ch /\ \A k \in 1..(i - 1) : s[k] # ch
         IN  <<SubSeq(s, 1, i - 1)>> \o SplitOn(SubSeq(s, i + 1, Len(s)), ch)

RECURSIVE LStripSet(_, _)
LStripSet(s, cs) ==
    IF s # <<>> /\ s[1] \in cs THEN LStripSet(Tail(s), cs) ELSE s

RECURSIVE RStripSet(_, _)
RStripSet(s, cs) ==
    IF s # <<>> /\ s[Len(s)] \in cs
    THEN RStripSet(SubSeq(s, 1, Len(s) - 1), cs) ELSE s

\* line.rstrip()
rstrip(s) == RStripSet(s, Whitespace)

\* text.strip()
strip(s) == LStripSet(RStripSet(s, Whitespace), Whitespace)

\* text.strip("\n")
strip_newlines(s) == LStripSet(RStripSet(s, {"\n"}), {"\n"})

RECURSIVE split(_)
\* text.split(): the maximal runs of non-white-space characters
split(s) ==
    LET t == LStripSet(s, Whitespace) IN
    IF t = <<>> THEN <<>>
    ELSE LET n == IF \E i \in 1..Len(t) : t[i] \in Whitespace
                  THEN (CHOOSE i \in 1..Len(t) :
                            t[i] \in Whitespace
                            /\ \A k \in 1..(i - 1) : t[k] \notin Whitespace) - 1
                  ELSE Len(t)
         IN  <<SubSeq(t, 1, n)>> \o split(SubSeq(t, n + 1, Len(t)))

RECURSIVE splitlines(_)
\* text.splitlines(): "\r\n" is one boundary, a final boundary opens no line
splitlines(s) ==
    IF s = <<>> THEN <<>>
    ELSE IF \A i \in 1..Len(s) : s[i] \notin LineBreaks THEN <<s>>
    ELSE LET i == CHOOSE i \in 1..Len(s) :
                      s[i] \in LineBreaks
                      /\ \A k \in 1..(i - 1) : s[k] \notin LineBreaks
             w == IF s[i] = "\r" /\ i < Len(s) /\ s[i + 1] = "\n" THEN 2 ELSE 1
         IN  <<SubSeq(s, 1, i - 1)>> \o splitlines(SubSeq(s, i + w, Len(s)))

\* html.escape of one character (quote=True)
escape_char(c) ==
    CASE c = "&"  -> <<"&", "a", "m", "p", ";">>
      [] c = "<"  -> <<"&", "l", "t", ";">>
      [] c = ">"  -> <<"&", "g", "t", ";">>
      [] c = "\"" -> <<"&", "q", "u", "o", "t", ";">>
      [] c = "'"  -> <<"&", "#", "x", "2", "7", ";">>
      [] OTHER    -> <<c>>

\* html.escape(s)
html_escape(s) == Concat([i \in 1..Len(s) |-> escape_char(s[i])])

\* ------------------------------------------------------------------------
\* difflib.SequenceMatcher(None, a, b), autojunk left at its default
\* ------------------------------------------------------------------------

\* __chain_b: with 200 or more elements in b, an element occurring more than
\* len(b) // 100 + 1 times is "popular" and is dropped from the index b2j.
bpopular(b, x) ==
    /\ Len(b) >= 200
    /\ Cardinality({j \in 1..Len(b) : b[j] = x}) > (Len(b) \div 100) + 1

RECURSIVE j2len(_, _, _, _, _, _)
\* find_longest_match, newj2len[j] at row i: the length of the run of equal,
\* indexed elements that ends at a[i], b[j] and stays inside [alo, ..) x [blo, ..)
j2len(a, b, alo, blo, i, j) ==
    IF i < alo \/ j < blo THEN 0
    ELSE IF a[i + 1] # b[j + 1] \/ bpopular(b, b[j + 1]) THEN 0
    ELSE j2len(a, b, alo, blo, i - 1, j - 1) + 1

\* find_longest_match, the loops over i in range(alo, ahi) and over the indices
\* j of a[i] in b: (besti, bestj, bestsize) changes only on a strictly longer
\* run, so the loops end with the longest run, and among the longest the one
\* met first, i.e. the one ending at the least i and, for that i, the least j
longest_scan(a, b, alo, ahi, blo, bhi) ==
    LET cells   == (alo..(ahi - 1)) \X (blo..(bhi - 1))
        k(p)    == j2len(a, b, alo, blo, p[1], p[2])
        sizes   == {k(p) : p \in cells} \cup {0}
        size    == CHOOSE n \in sizes : \A m \in sizes : m <= n
        longest == {p \in cells : k(p) = size}
        first   == CHOOSE p \in longest :
                       \A q \in longest :
                           p[1] < q[1] \/ (p[1] = q[1] /\ p[2] <= q[2])
    IN  IF size = 0 THEN <<alo, blo, 0>>
        ELSE <<first[1] - size + 1, first[2] - size + 1, size>>

RECURSIVE extend_back(_, _, _, _, _)
\* find_longest_match, first while loop (no element is junk: isjunk is None)
extend_back(a, b, alo, blo, m) ==
    IF m[1] > alo /\ m[2] > blo /\ a[m[1]] = b[m[2]]
    THEN extend_back(a, b, alo, blo, <<m[1] - 1, m[2] - 1, m[3] + 1>>)
    ELSE m

RECURSIVE extend_forward_unchecked(_, _, _, _, _)
\* Mutant of extend_forward: the match grows without its elements being compared.
extend_forward_unchecked(a, b, ahi, bhi, m) ==
    IF m[3] > 0 /\ m[1] + m[3] < ahi /\ m[2] + m[3] < bhi
    THEN extend_forward_unchecked(a, b, ahi, bhi, <<m[1], m[2], m[3] + 1>>)
    ELSE m

RECURSIVE extend_forward(_, _, _, _, _)
\* find_longest_match, second while loop
extend_forward(a, b, ahi, bhi, m) ==
    IF m[1] + m[3] < ahi /\ m[2] + m[3] < bhi
       /\ a[m[1] + m[3] + 1] = b[m[2] + m[3] + 1]
    THEN extend_forward(a, b, ahi, bhi, <<m[1], m[2], m[3] + 1>>)
    ELSE m

\* SequenceMatcher.find_longest_match(alo, ahi, blo, bhi): Match(i, j, size)
find_longest_match(a, b, alo, ahi, blo, bhi) ==
    extend_forward(a, b, ahi, bhi,
        extend_back(a, b, alo, blo,
            longest_scan(a, b, alo, ahi, blo, bhi)))

RECURSIVE matching_blocks_in(_, _, _, _, _, _)
\* get_matching_blocks, the work queue: the longest match of a window, then the
\* windows left and right of it; the blocks come out sorted as .sort() leaves them
matching_blocks_in(a, b, alo, ahi, blo, bhi) ==
    LET x == find_longest_match(a, b, alo, ahi, blo, bhi)
        i == x[1]
        j == x[2]
        k == x[3]
    IN  IF k = 0 THEN <<>>
        ELSE (IF alo < i /\ blo < j
              THEN matching_blocks_in(a, b, alo, i, blo, j) ELSE <<>>)
             \o <<x>>
             \o (IF i + k < ahi /\ j + k < bhi
                 THEN matching_blocks_in(a, b, i + k, ahi, j + k, bhi) ELSE <<>>)

RECURSIVE non_adjacent(_, _)
\* get_matching_blocks, the collapse of adjacent blocks; cur is (i1, j1, k1)
non_adjacent(blocks, cur) ==
    IF blocks = <<>> THEN (IF cur[3] # 0 THEN <<cur>> ELSE <<>>)
    ELSE LET nxt == Head(blocks) IN
         IF cur[1] + cur[3] = nxt[1] /\ cur[2] + cur[3] = nxt[2]
         THEN non_adjacent(Tail(blocks), <<cur[1], cur[2], cur[3] + nxt[3]>>)
         ELSE (IF cur[3] # 0 THEN <<cur>> ELSE <<>>)
              \o non_adjacent(Tail(blocks), nxt)

\* Mutant of get_matching_blocks: the sentinel (la, lb, 0) is not appended.
get_matching_blocks_no_sentinel(a, b) ==
    non_adjacent(matching_blocks_in(a, b, 0, Len(a), 0, Len(b)), <<0, 0, 0>>)

\* SequenceMatcher.get_matching_blocks(): ends with the sentinel (la, lb, 0)
get_matching_blocks(a, b) ==
    non_adjacent(matching_blocks_in(a, b, 0, Len(a), 0, Len(b)), <<0, 0, 0>>)
    \o <<(<<Len(a), Len(b), 0>>)>>

RECURSIVE opcodes_from_split(_, _, _)
\* Mutant of opcodes_from: a run with paragraphs on both sides is given as a
\* 'delete' followed by an 'insert' rather than as one 'replace'.
opcodes_from_split(blocks, i, j) ==
    IF blocks = <<>> THEN <<>>
    ELSE LET ai   == Head(blocks)[1]
             bj   == Head(blocks)[2]
             size == Head(blocks)[3]
         IN  (IF i < ai THEN <<(<<"delete", i, ai, j, j>>)>> ELSE <<>>)
             \o (IF j < bj THEN <<(<<"insert", ai, ai, j, bj>>)>> ELSE <<>>)
             \o (IF size # 0 THEN <<(<<"equal", ai, ai + size, bj, bj + size>>)>>
                 ELSE <<>>)
             \o opcodes_from_split(Tail(blocks), ai + size, bj + size)

RECURSIVE opcodes_no_replace(_, _, _)
\* Mutant of opcodes_from: the 'replace' branch is missing, so that i < ai alone
\* decides on 'delete'.
opcodes_no_replace(blocks, i, j) ==
    IF blocks = <<>> THEN <<>>
    ELSE LET ai   == Head(blocks)[1]
             bj   == Head(blocks)[2]
             size == Head(blocks)[3]
             tag  == IF i < ai THEN "delete" ELSE IF j < bj THEN "insert" ELSE ""
         IN  (IF tag # "" THEN <<(<<tag, i, ai, j, bj>>)>> ELSE <<>>)
             \o (IF size # 0 THEN <<(<<"equal", ai, ai + size, bj, bj + size>>)>>
                 ELSE <<>>)
             \o opcodes_no_replace(Tail(blocks), ai + size, bj + size)

RECURSIVE opcodes_from(_, _, _)
\* get_opcodes, the loop over the matching blocks; (i, j) is where the last one ended
opcodes_from(blocks, i, j) ==
    IF blocks = <<>> THEN <<>>
    ELSE LET ai   == Head(blocks)[1]
             bj   == Head(blocks)[2]
             size == Head(blocks)[3]
             tag  == IF i < ai /\ j < bj THEN "replace"
                     ELSE IF i < ai THEN "delete"
                     ELSE IF j < bj THEN "insert"
                     ELSE ""
         IN  (IF tag # "" THEN <<(<<tag, i, ai, j, bj>>)>> ELSE <<>>)
             \o (IF size # 0 THEN <<(<<"equal", ai, ai + size, bj, bj + size>>)>>
                 ELSE <<>>)
             \o opcodes_from(Tail(blocks), ai + size, bj + size)

\* SequenceMatcher.get_opcodes(): 5-tuples (tag, i1, i2, j1, j2)
get_opcodes(a, b) == opcodes_from(get_matching_blocks(a, b), 0, 0)

RECURSIVE SumSizes(_)
SumSizes(blocks) ==
    IF blocks = <<>> THEN 0 ELSE Head(blocks)[3] + SumSizes(Tail(blocks))

\* Mutant of ratio: 1.0 as soon as one of the two sequences is empty.
ratio_one_if_any_empty(a, b) ==
    LET matches == SumSizes(get_matching_blocks(a, b))
        length  == Len(a) + Len(b)
    IN  IF Len(a) # 0 /\ Len(b) # 0 THEN <<2 * matches, length>> ELSE <<1, 1>>

\* SequenceMatcher.ratio(): 2.0 * matches / length, and 1.0 when both are empty;
\* the quotient is kept exact, as the pair <<numerator, denominator>>
ratio(a, b) ==
    LET matches == SumSizes(get_matching_blocks(a, b))
        length  == Len(a) + Len(b)
    IN  IF length # 0 THEN <<2 * matches, length>> ELSE <<1, 1>>

\* ------------------------------------------------------------------------
\* Helpers of src/app.py
\* ------------------------------------------------------------------------

\* The two attestation sentences remove_attending_review_line drops, each
\* abbreviated to a short line over the alphabet of the model.
excluded_lines == { <<"Z">>, <<"Z", " ", "J">> }

\* The similarity below which a paired paragraph is shown as deleted + inserted,
\* in tenths (0.4).
SimilarityTenths == 4

\* Mutant of normalize_text: the lines left empty are dropped.
normalize_text_no_blank_lines(text) ==
    IF text = <<>> THEN <<>>
    ELSE LET unified == ReplaceCR(ReplaceCRLF(text))
             raw     == SplitOn(unified, "\n")
             lines   == [i \in 1..Len(raw) |-> rstrip(raw[i])]
         IN  Join(<<"\n">>, SelectSeq(lines, LAMBDA line : line # <<>>))

\* Mutant of normalize_text: each line is trimmed at both ends.
normalize_text_strip_lines(text) ==
    IF text = <<>> THEN <<>>
    ELSE LET unified == ReplaceCR(ReplaceCRLF(text))
             raw     == SplitOn(unified, "\n")
             lines   == [i \in 1..Len(raw) |-> strip(raw[i])]
         IN  strip_newlines(Join(<<"\n">>, lines))

\* normalize_text(text)
normalize_text(text) ==
    IF text = <<>> THEN <<>>
    ELSE LET unified == ReplaceCR(ReplaceCRLF(text))
             raw     == SplitOn(unified, "\n")
             lines   == [i \in 1..Len(raw) |-> rstrip(raw[i])]
         IN  strip_newlines(Join(<<"\n">>, lines))

\* Mutant of remove_attending_review_line: the line is compared as it is, not
\* trimmed.
remove_review_line_untrimmed(text) ==
    Join(<<"\n">>,
         SelectSeq(splitlines(text), LAMBDA line : line \notin excluded_lines))

\* remove_attending_review_line(text)
remove_attending_review_line(text) ==
    Join(<<"\n">>,
         SelectSeq(splitlines(text), LAMBDA line : strip(line) \notin excluded_lines))

RECURSIVE re_split_paragraphs(_)
\* re.split(r'\n\s*\n+', text): the leftmost "\n" that white space alone
\* separates from a later "\n" opens a separator, which runs to the last such "\n"
re_split_paragraphs(text) ==
    LET closes(i, j) == /\ text[j] = "\n"
                        /\ \A k \in (i + 1)..(j - 1) : text[k] \in Whitespace
        opens(i)     == text[i] = "\n" /\ \E j \in (i + 1)..Len(text) : closes(i, j)
    IN  IF \A i \in 1..Len(text) : ~opens(i) THEN <<text>>
        ELSE LET i == CHOOSE i \in 1..Len(text) :
                          opens(i) /\ \A k \in 1..(i - 1) : ~opens(k)
                 e == CHOOSE j \in (i + 1)..Len(text) :
                          closes(i, j)
                          /\ \A k \in (j + 1)..Len(text) : ~closes(i, k)
             IN  <<SubSeq(text, 1, i - 1)>>
                 \o re_split_paragraphs(SubSeq(text, e + 1, Len(text)))

\* Mutant of split_into_paragraphs: the empty pieces are not left out.
split_into_paragraphs_keep_empty(text) ==
    LET paragraphs == re_split_paragraphs(text)
    IN  [i \in 1..Len(paragraphs) |-> strip(paragraphs[i])]

\* split_into_paragraphs(text)
split_into_paragraphs(text) ==
    LET paragraphs == re_split_paragraphs(text)
        stripped   == [i \in 1..Len(paragraphs) |-> strip(paragraphs[i])]
    IN  SelectSeq(stripped, LAMBDA para : para # <<>>)

\* Mutant of round2: the digits after the second place are cut off.
round2_truncating(num, den) == (num * 100) \div den

\* round(x, 2) of the exact quotient num / den, in hundredths; a tie goes to the
\* even neighbour (no tie arises while den < 32)
round2(num, den) ==
    LET n == num * 100
        q == n \div den
        r == n % den
    IN  IF 2 * r < den THEN q
        ELSE IF 2 * r > den THEN q + 1
        ELSE IF q % 2 = 0 THEN q ELSE q + 1

\* calculate_change_percentage(resident_text, attending_text), in hundredths
\* of a percent: round((1 - matcher.ratio()) * 100, 2)
calculate_change_percentage(resident_text, attending_text) ==
    LET r == ratio(split(resident_text), split(attending_text))
    IN  round2((r[2] - r[1]) * 100, r[2])

\* <div class="para CLS">TEXT</div>
Para(cls, paragraph) ==
    [cls |-> cls, spans |-> <<[kind |-> "text", text |-> html_escape(paragraph)]>>]

\* <span class="word KIND">TEXT</span>, or the bare text of an equal run
Span(kind, words) ==
    [kind |-> kind, text |-> html_escape(Join(<<" ">>, words))]

\* Mutant of word_segments: a 'replace' of words shows the inserted words only.
word_segments_inserted_only(res_words, att_words) ==
    LET ops == get_opcodes(res_words, att_words)
        seg(op) ==
            LET del == Span("del", SubSeq(res_words, op[2] + 1, op[3]))
                ins == Span("ins", SubSeq(att_words, op[4] + 1, op[5]))
            IN  CASE op[1] = "equal"   ->
                         <<Span("text", SubSeq(res_words, op[2] + 1, op[3]))>>
                  [] op[1] = "replace" -> <<ins>>
                  [] op[1] = "delete"  -> <<del>>
                  [] op[1] = "insert"  -> <<ins>>
    IN  Concat([w \in 1..Len(ops) |-> seg(ops[w])])

\* create_diff_by_section, the word loop of one paired paragraph: the entries of
\* seg, a 'replace' entry being its deleted span, a blank, its inserted span
word_segments(res_words, att_words) ==
    LET ops == get_opcodes(res_words, att_words)
        seg(op) ==
            LET del == Span("del", SubSeq(res_words, op[2] + 1, op[3]))
                ins == Span("ins", SubSeq(att_words, op[4] + 1, op[5]))
            IN  CASE op[1] = "equal"   ->
                         <<Span("text", SubSeq(res_words, op[2] + 1, op[3]))>>
                  [] op[1] = "replace" -> <<del, ins>>
                  [] op[1] = "delete"  -> <<del>>
                  [] op[1] = "insert"  -> <<ins>>
    IN  Concat([w \in 1..Len(ops) |-> seg(ops[w])])

\* Mutant of replace_pair: there is no similarity test; every pair is shown as
\* one Replace block.
replace_pair_no_threshold(res_paragraphs, att_paragraphs, idx) ==
    LET has_res == idx < Len(res_paragraphs) /\ res_paragraphs[idx + 1] # <<>>
        has_att == idx < Len(att_paragraphs) /\ att_paragraphs[idx + 1] # <<>>
        res_paragraph == res_paragraphs[idx + 1]
        att_paragraph == att_paragraphs[idx + 1]
    IN  IF has_res /\ has_att
        THEN <<[cls   |-> "rep",
                spans |-> word_segments(split(res_paragraph),
                                        split(att_paragraph))]>>
        ELSE IF has_res THEN <<Para("del", res_paragraph)>>
        ELSE IF has_att THEN <<Para("ins", att_paragraph)>>
        ELSE <<>>

\* Mutant of replace_pair: the similarity test is turned round, so that the
\* similar pairs are the ones shown as deleted + inserted.
replace_pair_test_reversed(res_paragraphs, att_paragraphs, idx) ==
    LET has_res == idx < Len(res_paragraphs) /\ res_paragraphs[idx + 1] # <<>>
        has_att == idx < Len(att_paragraphs) /\ att_paragraphs[idx + 1] # <<>>
        res_paragraph == res_paragraphs[idx + 1]
        att_paragraph == att_paragraphs[idx + 1]
    IN  IF has_res /\ has_att
        THEN LET similarity == ratio(res_paragraph, att_paragraph) IN
             IF similarity[1] * 10 > SimilarityTenths * similarity[2]
             THEN <<Para("del", res_paragraph), Para("ins", att_paragraph)>>
             ELSE <<[cls   |-> "rep",
                     spans |-> word_segments(split(res_paragraph),
                                             split(att_paragraph))]>>
        ELSE IF has_res THEN <<Para("del", res_paragraph)>>
        ELSE IF has_att THEN <<Para("ins", att_paragraph)>>
        ELSE <<>>

\* create_diff_by_section, one index idx of a 'replace' opcode
replace_pair(res_paragraphs, att_paragraphs, idx) ==
    LET has_res == idx < Len(res_paragraphs) /\ res_paragraphs[idx + 1] # <<>>
        has_att == idx < Len(att_paragraphs) /\ att_paragraphs[idx + 1] # <<>>
        res_paragraph == res_paragraphs[idx + 1]
        att_paragraph == att_paragraphs[idx + 1]
    IN  IF has_res /\ has_att
        THEN LET similarity == ratio(res_paragraph, att_paragraph) IN
             IF similarity[1] * 10 < SimilarityTenths * similarity[2]
             THEN <<Para("del", res_paragraph), Para("ins", att_paragraph)>>
             ELSE <<[cls   |-> "rep",
                     spans |-> word_segments(split(res_paragraph),
                                             split(att_paragraph))]>>
        ELSE IF has_res THEN <<Para("del", res_paragraph)>>
        ELSE IF has_att THEN <<Para("ins", att_paragraph)>>
        ELSE <<>>

\* Mutant of opcode_blocks: an 'equal' opcode gives one block for all of its
\* paragraphs.
opcode_blocks_one_equal(resident_paragraphs, attending_paragraphs, op) ==
    LET res == SubSeq(resident_paragraphs, op[2] + 1, op[3])
        att == SubSeq(attending_paragraphs, op[4] + 1, op[5])
        max_len == IF Len(res) > Len(att) THEN Len(res) ELSE Len(att)
    IN  CASE op[1] = "equal"   -> <<Para("equal", Join(<<"\n", "\n">>, res))>>
          [] op[1] = "insert"  -> [n \in 1..Len(att) |-> Para("ins", att[n])]
          [] op[1] = "delete"  -> [n \in 1..Len(res) |-> Para("del", res[n])]
          [] op[1] = "replace" ->
                 Concat([n \in 1..max_len |-> replace_pair(res, att, n - 1)])

\* Mutant of opcode_blocks: the paragraphs of a 'replace' opcode are not paired;
\* its resident paragraphs are shown deleted, then its attending ones inserted.
opcode_blocks_zipped(resident_paragraphs, attending_paragraphs, op) ==
    LET res == SubSeq(resident_paragraphs, op[2] + 1, op[3])
        att == SubSeq(attending_paragraphs, op[4] + 1, op[5])
        min_len == IF Len(res) < Len(att) THEN Len(res) ELSE Len(att)
    IN  CASE op[1] = "equal"   -> [n \in 1..Len(res) |-> Para("equal", res[n])]
          [] op[1] = "insert"  -> [n \in 1..Len(att) |-> Para("ins", att[n])]
          [] op[1] = "delete"  -> [n \in 1..Len(res) |-> Para("del", res[n])]
          [] op[1] = "replace" ->
                 Concat([n \in 1..min_len |-> replace_pair(res, att, n - 1)])

\* Mutant of opcode_blocks: a Replace opcode gives its resident paragraphs as
\* Delete blocks and then its attending paragraphs as Insert blocks.
opcode_blocks_unpaired(resident_paragraphs, attending_paragraphs, op) ==
    LET res == SubSeq(resident_paragraphs, op[2] + 1, op[3])
        att == SubSeq(attending_paragraphs, op[4] + 1, op[5])
    IN  CASE op[1] = "equal"   -> [n \in 1..Len(res) |-> Para("equal", res[n])]
          [] op[1] = "insert"  -> [n \in 1..Len(att) |-> Para("ins", att[n])]
          [] op[1] = "delete"  -> [n \in 1..Len(res) |-> Para("del", res[n])]
          [] op[1] = "replace" ->
                 [n \in 1..Len(res) |-> Para("del", res[n])]
                 \o [n \in 1..Len(att) |-> Para("ins", att[n])]

\* create_diff_by_section, the body of the loop over the opcodes
opcode_blocks(resident_paragraphs, attending_paragraphs, op) ==
    LET res == SubSeq(resident_paragraphs, op[2] + 1, op[3])
        att == SubSeq(attending_paragraphs, op[4] + 1, op[5])
        max_len == IF Len(res) > Len(att) THEN Len(res) ELSE Len(att)
    IN  CASE op[1] = "equal"   -> [n \in 1..Len(res) |-> Para("equal", res[n])]
          [] op[1] = "insert"  -> [n \in 1..Len(att) |-> Para("ins", att[n])]
          [] op[1] = "delete"  -> [n \in 1..Len(res) |-> Para("del", res[n])]
          [] op[1] = "replace" ->
                 Concat([n \in 1..max_len |-> replace_pair(res, att, n - 1)])

\* Mutant of resident_paragraphs_of: a long text is cut short; its first two
\* paragraphs alone are kept.
resident_paragraphs_cut(resident_text) ==
    LET paragraphs == split_into_paragraphs(normalize_text(resident_text))
    IN  SubSeq(paragraphs, 1, IF Len(paragraphs) < 2 THEN Len(paragraphs) ELSE 2)

\* create_diff_by_section, the paragraphs the resident text is cut into
resident_paragraphs_of(resident_text) ==
    split_into_paragraphs(normalize_text(resident_text))

\* create_diff_by_section, the paragraphs the attending text is cut into
attending_paragraphs_of(attending_text) ==
    split_into_paragraphs(normalize_text(remove_attending_review_line(attending_text)))

\* create_diff_by_section, the opcodes of the paragraph matcher
paragraph_opcodes(resident_text, attending_text) ==
    get_opcodes(resident_paragraphs_of(resident_text),
                attending_paragraphs_of(attending_text))

\* Mutant of create_diff_by_section: the blocks are grouped by kind, deletions
\* first, then insertions, then the others.
create_diff_grouped(resident_text, attending_text) ==
    LET resident_paragraphs  == resident_paragraphs_of(resident_text)
        attending_paragraphs == attending_paragraphs_of(attending_text)
        ops == paragraph_opcodes(resident_text, attending_text)
        blocks == Concat([o \in 1..Len(ops) |->
                      opcode_blocks(resident_paragraphs, attending_paragraphs, ops[o])])
    IN  SelectSeq(blocks, LAMBDA blk : blk.cls = "del")
        \o SelectSeq(blocks, LAMBDA blk : blk.cls = "ins")
        \o SelectSeq(blocks, LAMBDA blk : blk.cls \notin {"del", "ins"})

\* create_diff_by_section(resident_text, attending_text): diff_html as the
\* sequence of its <div class="para ..."> elements
create_diff_by_section(resident_text, attending_text) ==
    LET resident_paragraphs  == resident_paragraphs_of(resident_text)
        attending_paragraphs == attending_paragraphs_of(attending_text)
        ops == paragraph_opcodes(resident_text, attending_text)
    IN  Concat([o \in 1..Len(ops) |->
                   opcode_blocks(resident_paragraphs, attending_paragraphs, ops[o])])

\* Mutant of replace_pair_at: the pairs that reach the threshold are the ones
\* shown as deleted + inserted.
replace_pair_at_reversed(threshold, res_paragraphs, att_paragraphs, idx) ==
    LET has_res == idx < Len(res_paragraphs) /\ res_paragraphs[idx + 1] # <<>>
        has_att == idx < Len(att_paragraphs) /\ att_paragraphs[idx + 1] # <<>>
        res_paragraph == res_paragraphs[idx + 1]
        att_paragraph == att_paragraphs[idx + 1]
    IN  IF has_res /\ has_att
        THEN LET similarity == ratio(res_paragraph, att_paragraph) IN
             IF similarity[1] * 10 >= threshold * similarity[2]
             THEN <<Para("del", res_paragraph), Para("ins", att_paragraph)>>
             ELSE <<[cls   |-> "rep",
                     spans |-> word_segments(split(res_paragraph),
                                             split(att_paragraph))]>>
        ELSE IF has_res THEN <<Para("del", res_paragraph)>>
        ELSE IF has_att THEN <<Para("ins", att_paragraph)>>
        ELSE <<>>

\* create_diff_by_section, one index idx of a 'replace' opcode, the literal 0.4
\* of 'if similarity < 0.4' being threshold tenths
replace_pair_at(threshold, res_paragraphs, att_paragraphs, idx) ==
    LET has_res == idx < Len(res_paragraphs) /\ res_paragraphs[idx + 1] # <<>>
        has_att == idx < Len(att_paragraphs) /\ att_paragraphs[idx + 1] # <<>>
        res_paragraph == res_paragraphs[idx + 1]
        att_paragraph == att_paragraphs[idx + 1]
    IN  IF has_res /\ has_att
        THEN LET similarity == ratio(res_paragraph, att_paragraph) IN
             IF similarity[1] * 10 < threshold * similarity[2]
             THEN <<Para("del", res_paragraph), Para("ins", att_paragraph)>>
             ELSE <<[cls   |-> "rep",
                     spans |-> word_segments(split(res_paragraph),
                                             split(att_paragraph))]>>
        ELSE IF has_res THEN <<Para("del", res_paragraph)>>
        ELSE IF has_att THEN <<Para("ins", att_paragraph)>>
        ELSE <<>>

\* create_diff_by_section, the body of the loop over the opcodes, for that
\* threshold
opcode_blocks_at(threshold, resident_paragraphs, attending_paragraphs, op) ==
    LET res == SubSeq(resident_paragraphs, op[2] + 1, op[3])
        att == SubSeq(attending_paragraphs, op[4] + 1, op[5])
        max_len == IF Len(res) > Len(att) THEN Len(res) ELSE Len(att)
    IN  CASE op[1] = "equal"   -> [n \in 1..Len(res) |-> Para("equal", res[n])]
          [] op[1] = "insert"  -> [n \in 1..Len(att) |-> Para("ins", att[n])]
          [] op[1] = "delete"  -> [n \in 1..Len(res) |-> Para("del", res[n])]
          [] op[1] = "replace" ->
                 Concat([n \in 1..max_len |->
                            replace_pair_at(threshold, res, att, n - 1)])

\* create_diff_by_section(resident_text, attending_text) for that threshold
create_diff_at(threshold, resident_text, attending_text) ==
    LET resident_paragraphs  == resident_paragraphs_of(resident_text)
        attending_paragraphs == attending_paragraphs_of(attending_text)
        ops == paragraph_opcodes(resident_text, attending_text)
    IN  Concat([o \in 1..Len(ops) |->
                   opcode_blocks_at(threshold, resident_paragraphs,
                                    attending_paragraphs, ops[o])])

RECURSIVE find(_, _)
\* text.find(sub) for a non-empty sub: the 0-based index of the first
\* occurrence, or -1
find(s, sub) ==
    IF Len(s) < Len(sub) THEN -1
    ELSE IF SubSeq(s, 1, Len(sub)) = sub THEN 0
    ELSE LET rest == find(Tail(s), sub) IN IF rest = -1 THEN -1 ELSE rest + 1

RECURSIVE split_on_string(_, _)
\* text.split(sep) for a non-empty string sep
split_on_string(s, sep) ==
    LET at == find(s, sep) IN
    IF at = -1 THEN <<s>>
    ELSE <<SubSeq(s, 1, at)>>
         \o split_on_string(SubSeq(s, at + Len(sep) + 1, Len(s)), sep)

\* text.replace(old, new) for a non-empty string old
replace_string(s, old, new) == Join(new, split_on_string(s, old))

\* "Resident Report: "
ResidentLabel ==
    <<"R", "e", "s", "i", "d", "e", "n", "t", " ", "R", "e", "p", "o", "r",
      "t", ":", " ">>

\* "\nAttending Report:"
AttendingSeparator ==
    <<"\n", "A", "t", "t", "e", "n", "d", "i", "n", "g", " ", "R", "e", "p",
      "o", "r", "t", ":">>

\* extract_cases, the f-string case_text of one case
case_text_of(resident_report, attending_report) ==
    ResidentLabel \o normalize_text(resident_report)
    \o AttendingSeparator \o <<" ">> \o normalize_text(attending_report)

\* extract_cases, resident_report as it is read back from case_text
resident_report_of(text) ==
    strip(replace_string(split_on_string(text, AttendingSeparator)[1],
                         ResidentLabel, <<>>))

\* extract_cases, attending_report as it is read back from case_text
attending_report_of(text) ==
    strip(split_on_string(text, AttendingSeparator)[2])

\* ------------------------------------------------------------------------
\* Inputs
\* ------------------------------------------------------------------------

\* The sequences over S of length at most n
SeqsUpTo(S, n) == UNION {[1..k -> S] : k \in 0..n}

\* The text whose paragraphs are paras, one blank line between two of them
TextOf(paras) == Join(<<"\n", "\n">>, paras)

\* Paragraphs of one word
WordParagraphs == { <<"a">>, <<"b">>, <<"c">> }

\* Paragraphs of several words, on one line or on two
RichParagraphs ==
    { <<"a", " ", "c">>, <<"b", " ", "b", " ", "c">>, <<"a", "\n", "c">> }

WordTexts == {TextOf(ps) : ps \in SeqsUpTo(WordParagraphs, MaxParas)}

RichTexts == {TextOf(ps) : ps \in SeqsUpTo(RichParagraphs, MaxRichParas)}

\* "No pneumothorax."
NoPneumothorax ==
    <<"N", "o", " ", "p", "n", "e", "u", "m", "o", "t", "h", "o", "r", "a",
      "x", ".">>

\* "Small right pneumothorax."
SmallRightPneumothorax ==
    <<"S", "m", "a", "l", "l", " ", "r", "i", "g", "h", "t", " ", "p", "n",
      "e", "u", "m", "o", "t", "h", "o", "r", "a", "x", ".">>

\* Pairs with an attestation line, other line endings, blank texts, markup
SpecialInputs ==
    { <<NoPneumothorax, SmallRightPneumothorax>>,
      <<(<<"a">>), <<"Z">>>>,
      <<(<<"a">>), <<" ", "Z", " ", "J", "\n">>>>,
      <<(<<"a", "\n", "\n", "b">>), <<"a", "\n", "\n", "b", "\n", "Z">>>>,
      <<(<<"Z", "\n", "\n", "a">>), <<"Z", "\n", "\n", "a">>>>,
      <<(<<"a", " ", "\r", "\n", "\r", "\n", "b", " ">>), <<"a", "\n", "\n", "b">>>>,
      <<(<<"a", "\n", " ", "\n", "\n", "b">>), <<"a", "\r", "\r", "c">>>>,
      <<(<<" ">>), <<>>>>,
      <<(<<>>), <<"\n">>>>,
      <<(<<>>), <<"Z">>>>,
      <<(<<"b", " ", "&">>), <<"b", " ", "<">>>>,
      <<(<<"a", " ", "b", "\n", "\n", "c">>),
        <<"a", " ", "d", "\n", "\n", "e", "\n", "\n", "f">>>>,
      <<(<<"a", " ">> \o ResidentLabel \o <<"b">>), <<"a", " ", "b">>>>,
      <<(<<"a">> \o Tail(AttendingSeparator) \o <<" ", "b">>),
        <<"a", " ">> \o ResidentLabel \o <<"b">> \o Tail(AttendingSeparator)>> }

\* Paragraphs that resemble each other two by two: "a c" and "a c c", "a b" and
\* "a b b", "b b" and "b b b"
SwapParagraphs ==
    { <<"a", " ", "c">>, <<"a", " ", "c", " ", "c">>,
      <<"a", " ", "b">>, <<"a", " ", "b", " ", "b">>,
      <<"b", " ", "b">>, <<"b", " ", "b", " ", "b">> }

\* Two resident paragraphs against two attending paragraphs
SwapInputs ==
    { <<TextOf(<<p, q>>), TextOf(<<r, t>>)>> : p, q, r, t \in SwapParagraphs }

\* Lines of an attending text: words, a blank line, the attestation lines
BoilerplateLines ==
    { <<"a">>, <<"b">>, <<>>, <<"Z">>, <<" ", "Z", " ", "J", " ">> }

\* Texts with attestation lines among their lines, against short texts
BoilerplateInputs ==
    LET texts == {Join(<<"\n">>, ls) : ls \in SeqsUpTo(BoilerplateLines, 3)}
    IN  ({ <<"a">>, <<"a", "\n", "\n", "b">> } \X texts)
        \cup (texts \X { <<"a">> })

\* Texts given character by character: blanks, line feeds and carriage returns
\* anywhere
RawTexts == SeqsUpTo({"a", " ", "\n", "\r"}, MaxRawLen)

RawInputs == (RawTexts \X { <<"a">> }) \cup ({ <<"a">> } \X RawTexts)

Inputs ==
    (WordTexts \X WordTexts) \cup (RichTexts \X RichTexts) \cup SpecialInputs
    \cup SwapInputs \cup BoilerplateInputs \cup RawInputs

\* ------------------------------------------------------------------------
\* process_cases and the summaries of extract_cases
\* ------------------------------------------------------------------------

\* cases_data holds at most this many cases.
MaxCases == 2

\* A findings list of a summary holds at most this many findings.
MaxFindings == 1

\* The case numbers the cases of a text carry; two cases may carry the same.
CaseNums == {"1", "2"}

\* A dict is a function from its keys; the empty dict has no key.
EmptyDict == <<>>

\* dict.get(key, default)
get(dict, key, default) == IF key \in DOMAIN dict THEN dict[key] ELSE default

\* The JSON values a findings field is given: an array of findings, or null.
array(items) == [kind |-> "array", items |-> items]

null == [kind |-> "null", items |-> <<>>]

\* An array of n findings
findings(n) == array([j \in 1..n |-> "finding"])

FindingsValues == {findings(n) : n \in 0..MaxFindings} \cup {null}

\* The dicts that hold key, with one of values, or do not hold it
OptionalField(key, values) == {EmptyDict} \cup {key :> v : v \in values}

\* A score the service states; it is not 3 * major + minor of any record here.
StatedScore == 3 * MaxFindings + MaxFindings + 1

\* get_summary, line 629: what json.loads(item.arguments) can be for the case
\* with this number. The schema asks for every field; the code relies on none:
\* a complete record echoes any case number or none; a record without score
\* holds one findings field, both, or neither, as an array or as null; and the
\* arguments can be an empty dict.
tool_arguments(case_number) ==
    {cn @@ [major_findings |-> findings(MaxFindings),
            minor_findings |-> findings(MaxFindings),
            score |-> StatedScore] :
        cn \in OptionalField("case_number", CaseNums)}
    \cup {[case_number |-> case_number] @@ major :
             major \in OptionalField("major_findings", FindingsValues)}
    \cup {[case_number |-> case_number] @@ minor :
             minor \in OptionalField("minor_findings", FindingsValues)}
    \cup {[case_number |-> case_number,
           major_findings |-> findings(MaxFindings),
           minor_findings |-> findings(MaxFindings)],
          EmptyDict}

\* A value that can be None is a sequence of no element or of one.
None == <<>>

Some(value) == <<value>>

\* The response of the service holds at most this many output items.
MaxOutputItems == 2

\* The classes of the exceptions the try block of get_summary can raise, each
\* with the classes it derives from: the errors of the client (lines 5-8),
\* the error of json.loads, and one exception of no class named in the code.
ExceptionBases ==
    [NotFoundError       |-> {"NotFoundError", "APIStatusError", "APIError", "Exception"},
     BadRequestError     |-> {"BadRequestError", "APIStatusError", "APIError", "Exception"},
     AuthenticationError |-> {"AuthenticationError", "APIStatusError", "APIError", "Exception"},
     RateLimitError      |-> {"RateLimitError", "APIStatusError", "APIError", "Exception"},
     InternalServerError |-> {"InternalServerError", "APIStatusError", "APIError", "Exception"},
     APIConnectionError  |-> {"APIConnectionError", "APIError", "Exception"},
     APITimeoutError     |-> {"APITimeoutError", "APIConnectionError", "APIError", "Exception"},
     JSONDecodeError     |-> {"JSONDecodeError", "ValueError", "Exception"},
     TypeError           |-> {"TypeError", "Exception"}]

\* An exception of that class, with that e.message
exception(class, message) == [class |-> class, message |-> message]

\* The exceptions the call of the service raises; e.message can be empty.
ServiceExceptions ==
    {exception(class, message) :
        class \in DOMAIN ExceptionBases \ {"JSONDecodeError"},
        message \in {"", "gone"}}

\* item.arguments of a function call: a text json.loads parses into a value,
\* or a text it raises JSONDecodeError for.
arguments_of(value) == [decodes |-> TRUE, value |-> value]

InvalidArguments == [decodes |-> FALSE, value |-> EmptyDict]

\* The output items of a response: a message, a call of another function, and
\* a call of summarize_radiology_report with any arguments.
OutputItems ==
    {[type |-> "message", name |-> "", arguments |-> InvalidArguments],
     [type |-> "function_call", name |-> "other_tool",
      arguments |-> arguments_of([case_number |-> "1"])]}
    \cup {[type |-> "function_call", name |-> "summarize_radiology_report",
           arguments |-> arguments] :
             arguments \in {InvalidArguments}
                 \cup {arguments_of(value) :
                          value \in UNION {tool_arguments(n) : n \in CaseNums}}}

\* What client.responses.create does: it raises, or it returns a response
\* with these output items.
raising(e) == [raises |-> Some(e), output |-> <<>>]

response(output) == [raises |-> None, output |-> output]

Services ==
    {raising(e) : e \in ServiceExceptions}
    \cup {response(output) : output \in SeqsUpTo(OutputItems, MaxOutputItems)}

\* Mutant of except_clauses: the clause "except Exception" is not there.
except_clauses_named ==
    <<"JSONDecodeError", "NotFoundError", "BadRequestError",
      "AuthenticationError", "RateLimitError", "APIConnectionError",
      "APIError">>

\* get_summary, lines 639-663: the classes of its except clauses, in order
except_clauses ==
    <<"JSONDecodeError", "NotFoundError", "BadRequestError",
      "AuthenticationError", "RateLimitError", "APIConnectionError",
      "APIError", "Exception">>

\* get_summary, lines 639-663: the 'error' of the record each clause returns
error_of(clause, e) ==
    CASE clause = "JSONDecodeError"     -> "Invalid JSON in tool arguments from AI."
      [] clause = "NotFoundError"       ->
             "404 NotFound: " \o e.message \o ". Check model id / project key."
      [] clause = "BadRequestError"     -> "400 BadRequest: " \o e.message
      [] clause = "AuthenticationError" -> "401 Unauthorized: check OPENAI_API_KEY"
      [] clause = "RateLimitError"      -> "429 Rate limited"
      [] clause = "APIConnectionError"  -> "Network error"
      [] clause = "APIError"            -> "Server error"
      [] clause = "Exception"           -> "Unhandled: " \o e.class \o "()"

\* What a call ends in: a record returned, or an exception that leaves it.
returns(record) == [propagates |-> None, record |-> record]

propagates(e) == [propagates |-> Some(e), record |-> EmptyDict]

\* The try statement of get_summary with exception e raised in its block: the
\* first clause naming a class of e returns its record; with no such clause
\* the exception leaves get_summary.
handled(e, case_number) ==
    LET matching == {k \in 1..Len(except_clauses) :
                        except_clauses[k] \in ExceptionBases[e.class]}
    IN  IF matching = {}
        THEN propagates(e)
        ELSE LET k == CHOOSE k \in matching : \A j \in matching : k <= j
             IN  returns([case_number |-> case_number,
                          error |-> error_of(except_clauses[k], e)])

\* get_summary, lines 633-636: the output items of the response that are calls
\* of summarize_radiology_report
tool_calls(output) ==
    {k \in 1..Len(output) :
        /\ output[k].type = "function_call"
        /\ output[k].name = "summarize_radiology_report"}

\* get_summary(case_text, custom_prompt, case_number) with the service doing
\* this: lines 611-663. The arguments of the first call of the tool are
\* parsed; a truthy value is returned as it is; no tool call, or a falsy
\* value, gives the record of line 637.
get_summary_of(service, case_number) ==
    IF service.raises # None
    THEN handled(service.raises[1], case_number)
    ELSE LET calls == tool_calls(service.output)
             first == CHOOSE k \in calls : \A j \in calls : k <= j
             item  == service.output[first]
         IN  IF calls # {} /\ ~item.arguments.decodes
             THEN handled(exception("JSONDecodeError", "Expecting value"),
                          case_number)
             ELSE IF calls # {} /\ item.arguments.value # EmptyDict
             THEN returns(item.arguments.value)
             ELSE returns([case_number |-> case_number,
                           error |-> "AI did not return the expected tool call."])

\* What the service does for the calls process_cases submits: it answers with
\* one call of the tool, its arguments any of tool_arguments, or the call
\* raises an error of the server.
PoolServices(case_number) ==
    {response(<<[type |-> "function_call",
                 name |-> "summarize_radiology_report",
                 arguments |-> arguments_of(parsed_json)]>>) :
        parsed_json \in tool_arguments(case_number)}
    \cup {raising(exception("InternalServerError", ""))}

\* get_summary: the records it can return for a case: the parsed arguments
\* when they are truthy, and an error record with the case number it was given
\* when they are not or when the call raised.
get_summary(case_number) ==
    {get_summary_of(service, case_number).record :
        service \in PoolServices(case_number)}

\* len() is defined of both findings fields of the record (a missing field
\* is read as the empty list).
FindingsSized(parsed_json) ==
    /\ get(parsed_json, "major_findings", findings(0)).kind = "array"
    /\ get(parsed_json, "minor_findings", findings(0)).kind = "array"

\* Line 680: len(major_findings) * 3 + len(minor_findings)
score_of(parsed_json) ==
    Len(get(parsed_json, "major_findings", findings(0)).items) * 3
    + Len(get(parsed_json, "minor_findings", findings(0)).items)

\* Mutant of parsed_json_of: the score is computed for every record.
parsed_json_rescored(result, case_num) ==
    IF FindingsSized(result)
    THEN ("score" :> score_of(result)) @@ result
    ELSE [case_number |-> case_num, error |-> "Unhandled: TypeError"]

\* process_cases, lines 677-684: the record appended for the result of the
\* future of case_num. (future.result() is never falsy, so "or {}" gives it
\* back.) len() of null raises TypeError, which the except clause turns into
\* an error record with the case number submitted.
parsed_json_of(result, case_num) ==
    IF "score" \in DOMAIN result
    THEN result
    ELSE IF FindingsSized(result)
         THEN ("score" :> score_of(result)) @@ result
         ELSE [case_number |-> case_num, error |-> "Unhandled: TypeError"]

\* Line 727: str(s.get('case_number'))
str_case_number(s) == get(s, "case_number", "None")

\* Line 727: the dict comprehension; of the summaries with one key the last in
\* ai_summaries stays.
summaries_by_case_num_of(ai_summaries) ==
    [key \in {str_case_number(ai_summaries[k]) : k \in 1..Len(ai_summaries)} |->
        ai_summaries[CHOOSE k \in 1..Len(ai_summaries) :
            /\ str_case_number(ai_summaries[k]) = key
            /\ \A j \in (k + 1)..Len(ai_summaries) :
                   str_case_number(ai_summaries[j]) # key]]

\* Mutant of summary_fields: 'summary' is ai_summary whatever it holds.
summary_fields_unchecked(ai_summary) ==
    [summary |-> Some(ai_summary),
     summary_error |-> IF "error" \in DOMAIN ai_summary
                       THEN Some(ai_summary["error"]) ELSE None]

\* Lines 741-742: 'summary' and 'summary_error' of a parsed case
summary_fields(ai_summary) ==
    [summary |-> IF "error" \notin DOMAIN ai_summary
                 THEN Some(ai_summary) ELSE None,
     summary_error |-> IF "error" \in DOMAIN ai_summary
                       THEN Some(ai_summary["error"]) ELSE None]

\* Lines 733-743: the parsed case of one entry of cases_data; case_text stands
\* for the reports, the change percentage and the diff taken from it.
parsed_case(case, summaries) ==
    [case_num |-> case.case_num, case_text |-> case.case_text]
    @@ summary_fields(get(summaries, case.case_num, EmptyDict))

\* Lines 700-709: the label_to_text a case can have: under each of its two
\* labels a text that is empty once stripped, a text that is not, or no such
\* label in the case.
LabelTexts ==
    {resident @@ attending :
        resident \in OptionalField("resident", {<<>>, <<"a">>}),
        attending \in OptionalField("attending", {<<>>, <<"a">>})}

\* The cases extract_cases finds in a text: each with a case number and its
\* label_to_text.
TextCases ==
    UNION {[1..n -> [case_num : CaseNums, label_to_text : LabelTexts]] :
              n \in 0..MaxCases}

\* Lines 711-714: the case has a resident report and an attending report.
has_both_reports(case) ==
    /\ get(case.label_to_text, "resident", <<>>) # <<>>
    /\ get(case.label_to_text, "attending", <<>>) # <<>>

\* Mutant of cases_data_of: every case of the text is queued.
cases_data_unfiltered(text_cases) ==
    [i \in 1..Len(text_cases) |->
        [case_text |-> i, case_num |-> text_cases[i].case_num]]

\* Lines 697-721: the cases_data extract_cases queues for the cases of a
\* text: the cases with both reports, in their order. The case_text of a case
\* is named by the place of the case in the text.
cases_data_of(text_cases) ==
    LET both == {i \in 1..Len(text_cases) : has_both_reports(text_cases[i])}
    IN  [j \in 1..Cardinality(both) |->
            LET i == CHOOSE i \in both :
                         Cardinality({m \in both : m <= i}) = j
            IN  [case_text |-> i, case_num |-> text_cases[i].case_num]]

\* ------------------------------------------------------------------------
\* State
\* ------------------------------------------------------------------------

VARIABLES
    resident_text,        \* the resident text of the case, as it is received
    attending_text,       \* the attending text of the case, as it is received
    pc,                   \* how far the case has been handled
    case_text,            \* extract_cases: the case_text queued in cases_data
    resident_report,      \* first argument of the diff calls made
    attending_report,     \* second argument of the diff calls made
    resident_normalized,  \* create_diff_by_section: resident_text, normalized
    attending_normalized, \* create_diff_by_section: attending_text, normalized
    resident_paragraphs,  \* create_diff_by_section: its resident_paragraphs
    attending_paragraphs, \* create_diff_by_section: its attending_paragraphs
    opcodes,              \* create_diff_by_section: matcher.get_opcodes()
    diff_html,            \* what create_diff_by_section returned
    percentage_change     \* what calculate_change_percentage returned

VARIABLES
    phase,                 \* how far extract_cases is with its summaries
    cases,                 \* extract_cases: the cases found in the text
    cases_data,            \* extract_cases: the cases queued
    future_state,          \* process_cases: each future running, finished
                           \* or taken from as_completed
    future_result,         \* process_cases: what get_summary returned
    completed,             \* process_cases: the futures in the order
                           \* as_completed gave them
    structured_output,     \* process_cases: its structured_output
    summaries_by_case_num, \* extract_cases: its summaries_by_case_num
    parsed_cases           \* what extract_cases returned

diff_vars == <<resident_text, attending_text, pc, case_text, resident_report,
               attending_report, resident_normalized, attending_normalized,
               resident_paragraphs, attending_paragraphs, opcodes, diff_html,
               percentage_change>>

cases_vars == <<phase, cases, cases_data, future_state, future_result, completed,
                structured_output, summaries_by_case_num, parsed_cases>>

VARIABLES
    call_args,   \* the two texts each thread calls the diff functions with
    frames,      \* each thread's place in its calls and the locals of the call
    returned     \* what the calls of each thread returned

thread_vars == <<call_args, frames, returned>>

VARIABLES
    service,        \* what the service does when get_summary calls it
    case_number,    \* get_summary: its case_number
    summary         \* what the call of get_summary ended in

summary_vars == <<service, case_number, summary>>

VARIABLES
    caseData,            \* the page: the list of cases it shows
    sortBtn,             \* the sort button of the sidebar: data-mode and label
    sortBtnRail,         \* the sort button of the rail: data-mode
    collapsed,           \* whether gridLayout has the class "collapsed"
    currentSearchTerm,   \* the search term the page filters by
    current              \* click handler: the mode it read, once it has run

page_vars == <<caseData, sortBtn, sortBtnRail, collapsed, currentSearchTerm,
               current>>

vars == <<diff_vars, cases_vars, thread_vars, summary_vars, page_vars>>

\* The variables other than those of each part of the program
not_diff_vars == <<cases_vars, thread_vars, summary_vars, page_vars>>

not_cases_vars == <<diff_vars, thread_vars, summary_vars, page_vars>>

not_thread_vars == <<diff_vars, cases_vars, summary_vars, page_vars>>

not_summary_vars == <<diff_vars, cases_vars, thread_vars, page_vars>>

not_page_vars == <<diff_vars, cases_vars, thread_vars, summary_vars>>

\* No page is open.
PageIdle ==
    /\ caseData = <<>>
    /\ sortBtn = [data_mode |-> "number", label |-> "Case #"]
    /\ sortBtnRail = [data_mode |-> "number"]
    /\ collapsed = FALSE
    /\ currentSearchTerm = ""
    /\ current = None

\* get_summary is not being called.
SummaryIdle ==
    /\ service = response(<<>>)
    /\ case_number = ""
    /\ summary = None

\* No thread is calling the diff functions.
ThreadsIdle ==
    /\ call_args = <<>>
    /\ frames = <<>>
    /\ returned = <<>>

\* No case is queued and no summary asked for.
CasesIdle ==
    /\ phase = "idle"
    /\ cases = <<>>
    /\ cases_data = <<>>
    /\ future_state = <<>>
    /\ future_result = <<>>
    /\ completed = <<>>
    /\ structured_output = <<>>
    /\ summaries_by_case_num = EmptyDict
    /\ parsed_cases = <<>>

Init ==
    /\ CasesIdle
    /\ ThreadsIdle
    /\ SummaryIdle
    /\ PageIdle
    /\ \E input \in Inputs :
           /\ resident_text = input[1]
           /\ attending_text = input[2]
    /\ pc = "start"
    /\ case_text = <<>>
    /\ resident_report = <<>>
    /\ attending_report = <<>>
    /\ resident_normalized = <<>>
    /\ attending_normalized = <<>>
    /\ resident_paragraphs = <<>>
    /\ attending_paragraphs = <<>>
    /\ opcodes = <<>>
    /\ diff_html = <<>>
    /\ percentage_change = 0

\* percentage_change as extract_cases computes it for two reports
ChangeOf(res, att) ==
    calculate_change_percentage(res, remove_attending_review_line(att))

\* A caller computes the change percentage of the two texts as they are.
CallChangePercentage ==
    /\ pc = "start"
    /\ pc' = "measured"
    /\ resident_report' = resident_text
    /\ attending_report' = attending_text
    /\ percentage_change' = ChangeOf(resident_text, attending_text)
    /\ UNCHANGED <<resident_text, attending_text, case_text, resident_normalized,
                   attending_normalized, resident_paragraphs,
                   attending_paragraphs, opcodes, diff_html>>
    /\ UNCHANGED not_diff_vars

\* The caller then has create_diff_by_section diff the same two texts.
CallCreateDiff ==
    /\ pc = "measured"
    /\ pc' = "result"
    /\ resident_normalized' = normalize_text(resident_report)
    /\ attending_normalized' =
           normalize_text(remove_attending_review_line(attending_report))
    /\ resident_paragraphs' = resident_paragraphs_of(resident_report)
    /\ attending_paragraphs' = attending_paragraphs_of(attending_report)
    /\ opcodes' = paragraph_opcodes(resident_report, attending_report)
    /\ diff_html' = create_diff_by_section(resident_report, attending_report)
    /\ UNCHANGED <<resident_text, attending_text, case_text, resident_report,
                   attending_report, percentage_change>>
    /\ UNCHANGED not_diff_vars

\* extract_cases, first loop: the case is queued when both of its reports,
\* stripped, are non-empty, and is left out with a warning otherwise.
ExtractCollect ==
    /\ pc = "start"
    /\ LET res == strip(resident_text)
           att == strip(attending_text)
       IN  IF res # <<>> /\ att # <<>>
           THEN /\ case_text' = case_text_of(res, att)
                /\ pc' = "queued"
           ELSE /\ case_text' = case_text
                /\ pc' = "skipped"
    /\ UNCHANGED <<resident_text, attending_text, resident_report,
                   attending_report, resident_normalized, attending_normalized,
                   resident_paragraphs, attending_paragraphs,
                   opcodes, diff_html, percentage_change>>
    /\ UNCHANGED not_diff_vars

\* extract_cases, second loop: the reports are read back from case_text and
\* the parsed case gets its percentage_change and its diff.
ExtractParse ==
    /\ pc = "queued"
    /\ pc' = "parsed"
    /\ LET res == resident_report_of(case_text)
           att == attending_report_of(case_text)
       IN  /\ resident_report' = res
           /\ attending_report' = att
           /\ percentage_change' = ChangeOf(res, att)
           /\ resident_normalized' = normalize_text(res)
           /\ attending_normalized' =
                  normalize_text(remove_attending_review_line(att))
           /\ resident_paragraphs' = resident_paragraphs_of(res)
           /\ attending_paragraphs' = attending_paragraphs_of(att)
           /\ opcodes' = paragraph_opcodes(res, att)
           /\ diff_html' = create_diff_by_section(res, att)
    /\ UNCHANGED <<resident_text, attending_text, case_text>>
    /\ UNCHANGED not_diff_vars

Next ==
    \/ CallChangePercentage
    \/ CallCreateDiff
    \/ ExtractCollect
    \/ ExtractParse

Spec == Init /\ [][Next]_vars

\* ------------------------------------------------------------------------
\* The summaries of extract_cases: process_cases has get_summary run for every
\* case of cases_data on a pool of threads, and takes the results as they come.
\* ------------------------------------------------------------------------

\* No text is being diffed.
DiffIdle ==
    /\ resident_text = <<>>
    /\ attending_text = <<>>
    /\ pc = "idle"
    /\ case_text = <<>>
    /\ resident_report = <<>>
    /\ attending_report = <<>>
    /\ resident_normalized = <<>>
    /\ attending_normalized = <<>>
    /\ resident_paragraphs = <<>>
    /\ attending_paragraphs = <<>>
    /\ opcodes = <<>>
    /\ diff_html = <<>>
    /\ percentage_change = 0

\* extract_cases has queued its cases; process_cases, when there is a case,
\* has submitted get_summary for each of them.
InitCases ==
    /\ DiffIdle
    /\ PageIdle
    /\ ThreadsIdle
    /\ SummaryIdle
    /\ phase = "pool"
    /\ cases \in TextCases
    /\ cases_data = cases_data_of(cases)
    /\ future_state = [i \in 1..Len(cases_data) |-> "running"]
    /\ future_result = [i \in 1..Len(cases_data) |-> EmptyDict]
    /\ completed = <<>>
    /\ structured_output = <<>>
    /\ summaries_by_case_num = EmptyDict
    /\ parsed_cases = <<>>

\* Lines 723-724: with no case queued extract_cases returns at once.
ExtractNoCases ==
    /\ phase = "pool"
    /\ cases_data = <<>>
    /\ phase' = "returned"
    /\ parsed_cases' = <<>>
    /\ UNCHANGED <<cases, cases_data, future_state, future_result, completed,
                   structured_output, summaries_by_case_num>>
    /\ UNCHANGED not_cases_vars

\* A thread of the pool returns from get_summary for the i-th case.
GetSummary(i) ==
    /\ phase = "pool"
    /\ future_state[i] = "running"
    /\ \E result \in get_summary(cases_data[i].case_num) :
           future_result' = [future_result EXCEPT ![i] = result]
    /\ future_state' = [future_state EXCEPT ![i] = "finished"]
    /\ UNCHANGED <<phase, cases, cases_data, completed, structured_output,
                   summaries_by_case_num, parsed_cases>>
    /\ UNCHANGED not_cases_vars

\* process_cases, lines 676-685: as_completed gives a finished future, any of
\* them, and its record is appended to structured_output.
AsCompleted(i) ==
    /\ phase = "pool"
    /\ future_state[i] = "finished"
    /\ future_state' = [future_state EXCEPT ![i] = "collected"]
    /\ completed' = Append(completed, i)
    /\ structured_output' =
           Append(structured_output,
                  parsed_json_of(future_result[i], cases_data[i].case_num))
    /\ UNCHANGED <<phase, cases, cases_data, future_result, summaries_by_case_num,
                   parsed_cases>>
    /\ UNCHANGED not_cases_vars

\* Mutant of parsed_cases_of: the parsed cases are built in the order of
\* ai_summaries, each summary taking the first case with its number (the case
\* at its place when there is none).
parsed_cases_as_completed(queued, ai_summaries) ==
    [k \in 1..Len(ai_summaries) |->
        LET owners == {i \in 1..Len(queued) :
                          queued[i].case_num = str_case_number(ai_summaries[k])}
            i == IF owners = {} THEN k
                 ELSE CHOOSE i \in owners : \A j \in owners : i <= j
        IN  parsed_case(queued[i], summaries_by_case_num_of(ai_summaries))]

\* extract_cases, lines 727-747: the loop runs over cases_data, in its order,
\* and appends one parsed case for each of its queued. (The IndexError of line
\* 744 cannot happen: every case_text is built at 715-718 with its
\* "\nAttending Report:".)
parsed_cases_of(queued, ai_summaries) ==
    [i \in 1..Len(queued) |->
        parsed_case(queued[i], summaries_by_case_num_of(ai_summaries))]

\* Mutant of as_completed_exhausted: the loop ends with the first future taken.
as_completed_first(states) ==
    \E i \in DOMAIN states : states[i] = "collected"

\* process_cases, lines 675 and 687: the loop over as_completed(...) ends, and
\* process_cases returns, when every future submitted has been given.
as_completed_exhausted(states) ==
    \A i \in DOMAIN states : states[i] = "collected"

\* extract_cases, lines 726-747: process_cases has returned; the summaries
\* are keyed by their case_number and each case of cases_data gets the
\* summary under its own number.
ExtractAttach ==
    /\ phase = "pool"
    /\ cases_data # <<>>
    /\ as_completed_exhausted(future_state)
    /\ phase' = "returned"
    /\ summaries_by_case_num' = summaries_by_case_num_of(structured_output)
    /\ parsed_cases' = parsed_cases_of(cases_data, structured_output)
    /\ UNCHANGED <<cases, cases_data, future_state, future_result, completed,
                   structured_output>>
    /\ UNCHANGED not_cases_vars

NextCases ==
    \/ ExtractNoCases
    \/ \E i \in 1..Len(cases_data) : GetSummary(i)
    \/ \E i \in 1..Len(cases_data) : AsCompleted(i)
    \/ ExtractAttach

SpecCases == InitCases /\ [][NextCases]_vars

\* ------------------------------------------------------------------------
\* Threads calling the diff functions at the same time: each serves a request
\* and calls calculate_change_percentage and create_diff_by_section with its
\* two texts; the statements of the calls interleave in any order.
\* ------------------------------------------------------------------------

\* This many threads call the diff functions at the same time.
MaxThreads == 2

Threads == 1..MaxThreads

\* The texts the threads call with: a paragraph rewritten after an equal one,
\* a paragraph inserted, a paragraph deleted, and a paragraph replaced by one
\* that has nothing of it.
ThreadInputs ==
    { <<(<<"a", "\n", "\n", "b", " ", "c">>), <<"a", "\n", "\n", "b", " ", "d">>>>,
      <<(<<"a">>), <<"b", "\n", "\n", "a">>>>,
      <<(<<"a", "\n", "\n", "b", "\n", "\n", "c">>), <<"a", "\n", "\n", "c", "\n", "Z">>>>,
      <<(<<"b", " ", "c">>), <<"d", " ", "e">>>> }

\* The locals of a call not made yet
NoLocals ==
    [pc |-> "called", resident_text |-> <<>>, attending_text |-> <<>>,
     resident_paragraphs |-> <<>>, attending_paragraphs |-> <<>>,
     opcodes |-> <<>>, taken |-> 0, diff_html |-> <<>>]

\* What a thread has got back from its calls
NoResults == [percentage_change |-> 0, diff |-> <<>>]

InitThreads ==
    /\ DiffIdle
    /\ PageIdle
    /\ CasesIdle
    /\ SummaryIdle
    /\ call_args \in [Threads -> ThreadInputs]
    /\ frames = [t \in Threads |-> NoLocals]
    /\ returned = [t \in Threads |-> NoResults]

\* Mutant of diff_html_appended: diff_html is one buffer that every call
\* appends to.
diff_html_shared(all_frames, t, blocks) ==
    [u \in DOMAIN all_frames |->
        [all_frames[u] EXCEPT !.diff_html = @ \o blocks]]

\* "diff_html += ..." in the call of thread t: diff_html is a local of the
\* call (line 557), so the diff_html of this call alone gets the blocks.
diff_html_appended(all_frames, t, blocks) ==
    [all_frames EXCEPT ![t].diff_html = @ \o blocks]

\* Line 738: thread t calls calculate_change_percentage, which holds no
\* state between its one statement and its return.
ThreadPercentage(t) ==
    /\ frames[t].pc = "called"
    /\ returned' = [returned EXCEPT ![t].percentage_change =
                        ChangeOf(call_args[t][1], call_args[t][2])]
    /\ frames' = [frames EXCEPT ![t].pc = "measured"]
    /\ UNCHANGED call_args
    /\ UNCHANGED not_thread_vars

\* create_diff_by_section, lines 552-553: its two texts, normalized
ThreadNormalize(t) ==
    /\ frames[t].pc = "measured"
    /\ frames' = [frames EXCEPT
           ![t].pc = "normalized",
           ![t].resident_text = normalize_text(call_args[t][1]),
           ![t].attending_text =
               normalize_text(remove_attending_review_line(call_args[t][2]))]
    /\ UNCHANGED <<call_args, returned>>
    /\ UNCHANGED not_thread_vars

\* create_diff_by_section, lines 554-555: the paragraphs of the two texts
ThreadSplit(t) ==
    /\ frames[t].pc = "normalized"
    /\ frames' = [frames EXCEPT
           ![t].pc = "split",
           ![t].resident_paragraphs =
               split_into_paragraphs(frames[t].resident_text),
           ![t].attending_paragraphs =
               split_into_paragraphs(frames[t].attending_text)]
    /\ UNCHANGED <<call_args, returned>>
    /\ UNCHANGED not_thread_vars

\* create_diff_by_section, lines 557-559: diff_html starts empty and the
\* matcher of the call gives its opcodes.
ThreadMatch(t) ==
    /\ frames[t].pc = "split"
    /\ frames' = [frames EXCEPT
           ![t].pc = "matched",
           ![t].diff_html = <<>>,
           ![t].taken = 0,
           ![t].opcodes = get_opcodes(frames[t].resident_paragraphs,
                                      frames[t].attending_paragraphs)]
    /\ UNCHANGED <<call_args, returned>>
    /\ UNCHANGED not_thread_vars

\* create_diff_by_section, lines 559-607: one turn of the loop over the
\* opcodes; the blocks of the opcode are appended to diff_html.
ThreadOpcode(t) ==
    /\ frames[t].pc = "matched"
    /\ frames[t].taken < Len(frames[t].opcodes)
    /\ frames' =
           [diff_html_appended(frames, t,
                opcode_blocks(frames[t].resident_paragraphs,
                              frames[t].attending_paragraphs,
                              frames[t].opcodes[frames[t].taken + 1]))
            EXCEPT ![t].taken = @ + 1]
    /\ UNCHANGED <<call_args, returned>>
    /\ UNCHANGED not_thread_vars

\* create_diff_by_section, line 608: the loop is over and diff_html returned.
ThreadReturn(t) ==
    /\ frames[t].pc = "matched"
    /\ frames[t].taken = Len(frames[t].opcodes)
    /\ returned' = [returned EXCEPT ![t].diff = frames[t].diff_html]
    /\ frames' = [frames EXCEPT ![t].pc = "returned"]
    /\ UNCHANGED call_args
    /\ UNCHANGED not_thread_vars

NextThreads ==
    \E t \in Threads :
        \/ ThreadPercentage(t)
        \/ ThreadNormalize(t)
        \/ ThreadSplit(t)
        \/ ThreadMatch(t)
        \/ ThreadOpcode(t)
        \/ ThreadReturn(t)

SpecThreads == InitThreads /\ [][NextThreads]_vars

\* ------------------------------------------------------------------------
\* One call of get_summary, the service doing any of the things it can do
\* ------------------------------------------------------------------------

InitSummary ==
    /\ DiffIdle
    /\ PageIdle
    /\ CasesIdle
    /\ ThreadsIdle
    /\ service \in Services
    /\ case_number \in CaseNums
    /\ summary = None

\* get_summary is called and ends.
CallGetSummary ==
    /\ summary = None
    /\ summary' = Some(get_summary_of(service, case_number))
    /\ UNCHANGED <<service, case_number>>
    /\ UNCHANGED not_summary_vars

NextSummary == CallGetSummary

SpecSummary == InitSummary /\ [][NextSummary]_vars

\* ------------------------------------------------------------------------
\* The page: its list of cases and its sort controls
\* ------------------------------------------------------------------------

MaxPageCases == 3

sortModes == <<"number", "change", "score">>

sortLabels == [number |-> "Case #", change |-> "Delta Change", score |-> "Score"]

\* Array.prototype.indexOf, counting from 0; -1 when the value is not there
indexOf(array_, value) ==
    IF \E k \in 1..Len(array_) : array_[k] = value
    THEN (CHOOSE k \in 1..Len(array_) :
              /\ array_[k] = value
              /\ \A j \in 1..(k - 1) : array_[j] # value) - 1
    ELSE -1

\* A number of the script is NaN or Some(n).
NaN == None

DigitValue ==
    "0" :> 0 @@ "1" :> 1 @@ "2" :> 2 @@ "3" :> 3 @@ "4" :> 4 @@
    "5" :> 5 @@ "6" :> 6 @@ "7" :> 7 @@ "8" :> 8 @@ "9" :> 9

RECURSIVE decimal(_, _)
decimal(string, n) ==
    IF n = 0 THEN 0 ELSE decimal(string, n - 1) * 10 + DigitValue[string[n]]

\* parseInt of a string of digits and letters: the number its leading digits
\* spell, NaN when it starts with none
parseInt(string) ==
    LET n == CHOOSE n \in 0..Len(string) :
                 /\ \A k \in 1..n : string[k] \in DOMAIN DigitValue
                 /\ n = Len(string) \/ string[n + 1] \notin DOMAIN DigitValue
    IN  IF n = 0 THEN NaN ELSE Some(decimal(string, n))

\* x - y of two numbers
minus(x, y) == IF x = NaN \/ y = NaN THEN NaN ELSE Some(x[1] - y[1])

\* value || 0 of a number that may be undefined
or_zero(value) == IF value = None THEN 0 ELSE value[1]

\* c.summary?.score
summary_score(c) ==
    IF c.summary = None THEN None
    ELSE IF "score" \in DOMAIN c.summary[1] THEN Some(c.summary[1]["score"])
    ELSE None

\* The comparators of sortBy; percentage_change is a number in every case of
\* the page, and || 0 leaves a number as it is.
compare_number(a, b) == minus(parseInt(a.case_num), parseInt(b.case_num))

compare_change(a, b) == Some(b.percentage_change - a.percentage_change)

compare_score(a, b) ==
    Some(or_zero(summary_score(b)) - or_zero(summary_score(a)))

\* The comparator sortBy hands to Array.prototype.sort for the mode
comparefn(mode, a, b) ==
    IF mode = "number" THEN compare_number(a, b)
    ELSE IF mode = "change" THEN compare_change(a, b)
    ELSE compare_score(a, b)

\* Array.prototype.sort reads a comparator's NaN as +0.
SortCompare(mode, x, y) ==
    LET v == comparefn(mode, x, y) IN IF v = NaN THEN 0 ELSE v[1]

\* The comparator is consistent for the values of the list, as
\* Array.prototype.sort requires of it.
Consistent(mode, list) ==
    LET values == {list[k] : k \in 1..Len(list)}
        v(x, y) == SortCompare(mode, x, y)
    IN  /\ \A x \in values : v(x, x) = 0
        /\ \A x, y \in values :
               /\ v(x, y) = 0 => v(y, x) = 0
               /\ v(x, y) < 0 => v(y, x) > 0
               /\ v(x, y) > 0 => v(y, x) < 0
        /\ \A x, y, z \in values :
               /\ v(x, y) = 0 /\ v(y, z) = 0 => v(x, z) = 0
               /\ v(x, y) < 0 /\ v(y, z) < 0 => v(x, z) < 0
               /\ v(x, y) > 0 /\ v(y, z) > 0 => v(x, z) > 0

\* The orders a list can be put in: the ways to place its positions
Orders(list) ==
    {p \in [1..Len(list) -> 1..Len(list)] :
         \A i, j \in 1..Len(list) : p[i] = p[j] => i = j}

\* Array.prototype.sort with the comparator of the mode: what the list can be
\* afterwards. The sort is stable and orders by the comparator when the
\* comparator is consistent; when it is not, the order is left to the
\* implementation.
sort(mode, list) ==
    {[i \in 1..Len(list) |-> list[p[i]]] :
         p \in {q \in Orders(list) :
                   Consistent(mode, list) =>
                       \A i, j \in 1..Len(list) :
                           i < j =>
                               LET v == SortCompare(mode, list[q[i]],
                                                    list[q[j]])
                               IN  v < 0 \/ (v = 0 /\ q[i] < q[j])}}

\* sortBy(mode): what caseData can be afterwards
sortBy(mode, list) ==
    IF mode \in {"number", "change", "score"} THEN sort(mode, list)
    ELSE {list}

\* applySortVisual(mode): both buttons are given the mode.
applySortVisual(mode) ==
    /\ sortBtn' = [data_mode |-> mode, label |-> sortLabels[mode]]
    /\ sortBtnRail' = [data_mode |-> mode]

\* cycleSort(currentMode); its rerender() shows the list again and changes
\* neither the list nor the buttons.
cycleSort(currentMode) ==
    LET idx == indexOf(sortModes, currentMode)
        next == sortModes[((idx + 1) % Len(sortModes)) + 1]
    IN  /\ caseData' \in sortBy(next, caseData)
        /\ applySortVisual(next)
        /\ UNCHANGED currentSearchTerm

\* button.getAttribute('data-mode') || 'number'
data_mode_or_number(button) ==
    IF button.data_mode = "" THEN "number" ELSE button.data_mode

\* The cases a page can hold. A case of the server has the number the text
\* gave it and, in its summary, a score or an error; an uploaded case may lack
\* its number.
PageCase(num, change, summary_of) ==
    [case_num |-> num, percentage_change |-> change, summary |-> summary_of]

ServerCases ==
    {PageCase(<<"2">>, 20, Some("score" :> 3)),
     PageCase(<<"1", "0">>, 50, None),
     PageCase(<<"1">>, 20, Some("score" :> 5))}

\* What the cases of an uploaded session are before they are normalised
UploadedCases ==
    {"case_num" :> c.case_num @@ "percentage_change" :> c.percentage_change
         @@ "summary" :> c.summary : c \in ServerCases}
        \cup {"summary" :> Some("score" :> 3)}

\* The lists of at most MaxPageCases different members of a set
ListsOf(set) ==
    UNION {{list \in [1..n -> set] :
                \A i, j \in 1..n : list[i] = list[j] => i = j} :
           n \in 0..MaxPageCases}

\* normalizeFromFullState: the cases of an uploaded session
normalizeFromFullState(uploaded) ==
    [k \in 1..Len(uploaded) |->
        PageCase(get(uploaded[k], "case_num",
                     get(uploaded[k], "case_number", <<>>)),
                 get(uploaded[k], "percentage_change", 0),
                 get(uploaded[k], "summary", None))]

\* The page as it is once loaded: the cases of the server in the order of the
\* text, both buttons on "number", the sidebar expanded.
InitPage ==
    /\ DiffIdle
    /\ CasesIdle
    /\ ThreadsIdle
    /\ SummaryIdle
    /\ caseData \in ListsOf(ServerCases)
    /\ sortBtn = [data_mode |-> "number", label |-> sortLabels["number"]]
    /\ sortBtnRail = [data_mode |-> "number"]
    /\ collapsed = FALSE
    /\ currentSearchTerm = ""
    /\ current = None

\* A click on the sort button of the sidebar
ClickSortBtn ==
    /\ current' = Some(data_mode_or_number(sortBtn))
    /\ cycleSort(data_mode_or_number(sortBtn))
    /\ UNCHANGED collapsed
    /\ UNCHANGED not_page_vars

\* A click on the sort button of the rail
ClickSortBtnRail ==
    /\ current' = Some(data_mode_or_number(sortBtnRail))
    /\ cycleSort(data_mode_or_number(sortBtnRail))
    /\ UNCHANGED collapsed
    /\ UNCHANGED not_page_vars

\* The key S is pressed: nothing happens while a text field has the focus or
\* with a modifier key, else the sort button that is visible is clicked.
KeydownS(in_text_field, hasModifier) ==
    IF in_text_field \/ hasModifier
    THEN UNCHANGED vars
    ELSE IF collapsed THEN ClickSortBtnRail ELSE ClickSortBtn

\* The sidebar is collapsed from its button, or expanded from the rail's.
ToggleSidebar(to_collapsed) ==
    /\ collapsed' = to_collapsed
    /\ current' = None
    /\ UNCHANGED <<caseData, sortBtn, sortBtnRail, currentSearchTerm>>
    /\ UNCHANGED not_page_vars

SearchTerms == {"", "b"}

\* The search field is edited; the list is shown again.
SearchInput(term) ==
    /\ currentSearchTerm' = term
    /\ current' = None
    /\ UNCHANGED <<caseData, sortBtn, sortBtnRail, collapsed>>
    /\ UNCHANGED not_page_vars

\* The Clear button empties the list and shows it again.
ClearBtn ==
    /\ caseData' = <<>>
    /\ currentSearchTerm' = ""
    /\ current' = None
    /\ UNCHANGED <<sortBtn, sortBtnRail, collapsed>>
    /\ UNCHANGED not_page_vars

\* A session is uploaded: its cases replace the list, sorted by number.
Upload(uploaded) ==
    /\ caseData' \in sortBy("number", normalizeFromFullState(uploaded))
    /\ applySortVisual("number")
    /\ currentSearchTerm' = ""
    /\ current' = None
    /\ UNCHANGED collapsed
    /\ UNCHANGED not_page_vars

\* A file is uploaded that holds no session: the page stays as it is.
UploadUnrecognized ==
    /\ current' = None
    /\ UNCHANGED <<caseData, sortBtn, sortBtnRail, collapsed,
                   currentSearchTerm>>
    /\ UNCHANGED not_page_vars

NextPage ==
    \/ ClickSortBtn
    \/ ClickSortBtnRail
    \/ \E in_text_field, hasModifier \in BOOLEAN :
           KeydownS(in_text_field, hasModifier)
    \/ \E to_collapsed \in BOOLEAN : ToggleSidebar(to_collapsed)
    \/ \E term \in SearchTerms : SearchInput(term)
    \/ ClearBtn
    \/ \E uploaded \in ListsOf(UploadedCases) : Upload(uploaded)
    \/ UploadUnrecognized

SpecPage == InitPage /\ [][NextPage]_vars

\* ------------------------------------------------------------------------
\* Properties
\* ------------------------------------------------------------------------

\* Both results of the case are there: its change percentage and its diff.
Done == pc \in {"result", "parsed"}

Tags(ops) == {ops[k][1] : k \in 1..Len(ops)}

\* The ranges of ops run without gap or overlap from 0 to la and from 0 to lb,
\* and every index lies in exactly one of them.
Partition(ops, la, lb) ==
    /\ ops = <<>> => la = 0 /\ lb = 0
    /\ ops # <<>> =>
           /\ ops[1][2] = 0 /\ ops[1][4] = 0
           /\ ops[Len(ops)][3] = la /\ ops[Len(ops)][5] = lb
    /\ \A k \in 1..Len(ops) :
           /\ ops[k][2] <= ops[k][3] /\ ops[k][4] <= ops[k][5]
           /\ k < Len(ops) =>
                  ops[k][3] = ops[k + 1][2] /\ ops[k][5] = ops[k + 1][4]
    /\ \A i \in 0..(la - 1) :
           Cardinality({k \in 1..Len(ops) : ops[k][2] <= i /\ i < ops[k][3]}) = 1
    /\ \A j \in 0..(lb - 1) :
           Cardinality({k \in 1..Len(ops) : ops[k][4] <= j /\ j < ops[k][5]}) = 1

\* C1: the opcode list create_diff_by_section walks partitions both paragraph
\* sequences: every resident index lies in exactly one a-range, every attending
\* index in exactly one b-range, and the ranges run contiguously, in
\* non-decreasing order, from 0 to len(a) and from 0 to len(b).
C1_Partition ==
    Done => Partition(opcodes, Len(resident_paragraphs), Len(attending_paragraphs))

\* A diff whose opcodes hold a replace, an equal and a one-sided run.
C1_Witness ==
    /\ Done
    /\ {"replace", "equal"} \subseteq Tags(opcodes)
    /\ Tags(opcodes) \cap {"delete", "insert"} # {}

\* The text one side of a block shows: the spans of the kinds given, one blank
\* between two of them.
SideText(blk, kinds) ==
    Join(<<" ">>,
         LET shown == SelectSeq(blk.spans, LAMBDA sp : sp.kind \in kinds)
         IN  [n \in 1..Len(shown) |-> shown[n].text])

\* The blocks that show resident text, and the resident text of each.
ResidentBlocks == SelectSeq(diff_html, LAMBDA blk : blk.cls \in {"equal", "del", "rep"})

ResidentSide == [n \in 1..Len(ResidentBlocks) |->
                    SideText(ResidentBlocks[n], {"text", "del"})]

\* The blocks that show attending text, and the attending text of each.
AttendingBlocks == SelectSeq(diff_html, LAMBDA blk : blk.cls \in {"equal", "ins", "rep"})

AttendingSide == [n \in 1..Len(AttendingBlocks) |->
                     SideText(AttendingBlocks[n], {"text", "ins"})]

\* The text of paragraph para as a block of class cls shows it, markup escaped:
\* a Replace block shows the words of the paragraph with one blank between them.
Shown(cls, para) ==
    IF cls = "rep" THEN html_escape(Join(<<" ">>, split(para)))
    ELSE html_escape(para)

\* C2 as claimed: the resident-side texts of the blocks, in output order, are
\* exactly the resident paragraphs, and the attending-side texts exactly the
\* attending paragraphs.
C2_ExactRoundTrip ==
    Done =>
        /\ ResidentSide = [n \in 1..Len(resident_paragraphs) |->
                              html_escape(resident_paragraphs[n])]
        /\ AttendingSide = [n \in 1..Len(attending_paragraphs) |->
                               html_escape(attending_paragraphs[n])]

\* C2 amended: the resident-side texts of the blocks, in output order, are the
\* resident paragraphs one for one, exactly in Equal and Delete blocks and with
\* the white space between the words of the paragraph reduced to one blank in
\* Replace blocks; likewise the attending-side texts and the attending
\* paragraphs (Equal, Insert and Replace blocks).
C2_RoundTrip ==
    Done =>
        /\ Len(ResidentBlocks) = Len(resident_paragraphs)
        /\ \A n \in 1..Len(ResidentBlocks) :
               ResidentSide[n] = Shown(ResidentBlocks[n].cls, resident_paragraphs[n])
        /\ Len(AttendingBlocks) = Len(attending_paragraphs)
        /\ \A n \in 1..Len(AttendingBlocks) :
               AttendingSide[n] = Shown(AttendingBlocks[n].cls, attending_paragraphs[n])

\* A diff with a Replace block made of an equal, a deleted and an inserted span,
\* next to a block of another class.
C2_Witness ==
    /\ Done
    /\ \E n \in 1..Len(diff_html) :
           /\ diff_html[n].cls = "rep"
           /\ {diff_html[n].spans[w].kind : w \in 1..Len(diff_html[n].spans)}
                  = {"text", "del", "ins"}
    /\ \E n \in 1..Len(diff_html) : diff_html[n].cls \in {"del", "ins"}

\* The two reports are identical once normalized the way the diff normalizes them.
Identical ==
    normalize_text(resident_report)
        = normalize_text(remove_attending_review_line(attending_report))

ResidentRank(n) ==
    Cardinality({m \in 1..n : diff_html[m].cls \in {"equal", "del", "rep"}})

AttendingRank(n) ==
    Cardinality({m \in 1..n : diff_html[m].cls \in {"equal", "ins", "rep"}})

\* Block n shows paragraphs of the ranges of opcode k, each side of the block
\* being the next paragraph of its text.
Belongs(n, k) ==
    /\ diff_html[n].cls \in {"equal", "del", "rep"} =>
           opcodes[k][2] < ResidentRank(n) /\ ResidentRank(n) <= opcodes[k][3]
    /\ diff_html[n].cls \in {"equal", "ins", "rep"} =>
           opcodes[k][4] < AttendingRank(n) /\ AttendingRank(n) <= opcodes[k][5]

\* A block of class cls can come from an opcode with this tag.
ClassFits(cls, tag) ==
    CASE tag = "equal"   -> cls = "equal"
      [] tag = "delete"  -> cls = "del"
      [] tag = "insert"  -> cls = "ins"
      [] tag = "replace" -> cls \in {"rep", "del", "ins"}

\* C4: the blocks come in document order: every block shows paragraphs of one
\* opcode, with a class that opcode allows, and the blocks follow the order of
\* the opcodes, whatever their kinds; resident paragraphs [A, B] against
\* attending [B] give [Delete(A), Equal(B)].
C4_DocumentOrder ==
    Done =>
        /\ \A n \in 1..Len(diff_html) :
               \E k \in 1..Len(opcodes) :
                   Belongs(n, k) /\ ClassFits(diff_html[n].cls, opcodes[k][1])
        /\ \A n, m \in 1..Len(diff_html) :
               \A k, l \in 1..Len(opcodes) :
                   (n < m /\ Belongs(n, k) /\ Belongs(m, l)) => k <= l
        /\ ( /\ Len(resident_paragraphs) = 2
             /\ resident_paragraphs[1] # resident_paragraphs[2]
             /\ attending_paragraphs = <<resident_paragraphs[2]>> ) =>
               /\ Len(diff_html) = 2
               /\ diff_html[1].cls = "del"
               /\ SideText(diff_html[1], {"text"}) = html_escape(resident_paragraphs[1])
               /\ diff_html[2].cls = "equal"
               /\ SideText(diff_html[2], {"text"}) = html_escape(resident_paragraphs[2])

\* Resident paragraphs [A, B] diffed against attending [B].
C4_Witness ==
    /\ Done
    /\ Len(resident_paragraphs) = 2
    /\ resident_paragraphs[1] # resident_paragraphs[2]
    /\ attending_paragraphs = <<resident_paragraphs[2]>>
    /\ Len(diff_html) = 2

\* The paragraphs of a range, as a set.
Range(paragraphs, lo, hi) == {paragraphs[i] : i \in (lo + 1)..hi}

\* C5: every run of paragraphs between two matches, or between a match and an
\* end of the sequences, is one opcode: Replace when both sides of the run have
\* paragraphs (none of them common to the two sides), Delete when only the
\* resident side has, Insert when only the attending side has; an Equal opcode
\* covers the same paragraphs on both sides, and two opcodes that follow each
\* other are never both Equal and never both runs.
C5_Runs ==
    Done =>
        \A k \in 1..Len(opcodes) :
            LET tag == opcodes[k][1]
                a1  == opcodes[k][2]
                a2  == opcodes[k][3]
                b1  == opcodes[k][4]
                b2  == opcodes[k][5]
            IN  /\ tag \in {"replace", "delete", "insert", "equal"}
                /\ tag = "replace" =>
                       /\ a1 < a2 /\ b1 < b2
                       /\ Range(resident_paragraphs, a1, a2)
                              \cap Range(attending_paragraphs, b1, b2) = {}
                /\ tag = "delete" => a1 < a2 /\ b1 = b2
                /\ tag = "insert" => a1 = a2 /\ b1 < b2
                /\ tag = "equal" =>
                       /\ a1 < a2
                       /\ SubSeq(resident_paragraphs, a1 + 1, a2)
                              = SubSeq(attending_paragraphs, b1 + 1, b2)
                /\ k < Len(opcodes) =>
                       (tag = "equal") # (opcodes[k + 1][1] = "equal")

\* A Replace run with a match before it and a match after it.
C5_Witness ==
    /\ Done
    /\ \E k \in 2..(Len(opcodes) - 1) :
           /\ opcodes[k][1] = "replace"
           /\ opcodes[k - 1][1] = "equal"
           /\ opcodes[k + 1][1] = "equal"

\* The tokens of the spans of the kinds given, in order.
SpanTokens(spans, kinds) ==
    LET shown == SelectSeq(spans, LAMBDA sp : sp.kind \in kinds)
    IN  Concat([n \in 1..Len(shown) |-> split(shown[n].text)])

\* The spans give the word diff of the words res_words against att_words: the
\* plain and deleted spans together are the resident words, the plain and
\* inserted spans together the attending words, so a word of one side only is
\* in a deleted or inserted span and a plain span holds words of both sides.
WordMarks(spans, res_words, att_words) ==
    /\ \A w \in 1..Len(spans) :
           spans[w].kind \in {"text", "del", "ins"} /\ spans[w].text # <<>>
    /\ SpanTokens(spans, {"text", "del"})
           = [n \in 1..Len(res_words) |-> html_escape(res_words[n])]
    /\ SpanTokens(spans, {"text", "ins"})
           = [n \in 1..Len(att_words) |-> html_escape(att_words[n])]

\* C6 as claimed: every block that comes from a Replace opcode is a Replace
\* block holding a word diff.
C6_EveryReplaceNested ==
    Done =>
        \A n \in 1..Len(diff_html) :
            \A k \in 1..Len(opcodes) :
                (Belongs(n, k) /\ opcodes[k][1] = "replace") =>
                    diff_html[n].cls = "rep"

\* C6 amended: inside a Replace opcode the paragraphs are paired by position,
\* and every pair whose character similarity is 0.4 or more gives one Replace
\* block holding the word diff of the pair: words of the resident paragraph
\* only are Delete spans, words of the attending paragraph only are Insert
\* spans, words of both are plain; every Replace block is such a pair; 'No
\* pneumothorax.' against 'Small right pneumothorax.' gives one Replace block,
\* 'No' deleted, 'Small right' inserted, 'pneumothorax.' plain.
C6_NestedWordDiff ==
    Done =>
        /\ \A k \in 1..Len(opcodes) :
               opcodes[k][1] = "replace" =>
                   \A idx \in 1..Len(resident_paragraphs) :
                       LET r   == opcodes[k][2] + idx
                           t   == opcodes[k][4] + idx
                           sim == ratio(resident_paragraphs[r], attending_paragraphs[t])
                       IN  (r <= opcodes[k][3] /\ t <= opcodes[k][5]
                            /\ sim[1] * 10 >= SimilarityTenths * sim[2]) =>
                               \E n \in 1..Len(diff_html) :
                                   /\ diff_html[n].cls = "rep"
                                   /\ ResidentRank(n) = r
                                   /\ AttendingRank(n) = t
        /\ \A n \in 1..Len(diff_html) :
               diff_html[n].cls = "rep" =>
                   WordMarks(diff_html[n].spans,
                             split(resident_paragraphs[ResidentRank(n)]),
                             split(attending_paragraphs[AttendingRank(n)]))
        /\ (resident_paragraphs = <<NoPneumothorax>>
            /\ attending_paragraphs = <<SmallRightPneumothorax>>) =>
               diff_html =
                   << [cls   |-> "rep",
                       spans |-> << [kind |-> "del", text |-> <<"N", "o">>],
                                    [kind |-> "ins",
                                     text |-> SubSeq(SmallRightPneumothorax, 1, 11)],
                                    [kind |-> "text",
                                     text |-> SubSeq(NoPneumothorax, 4, 16)] >>] >>

\* 'No pneumothorax.' has been diffed against 'Small right pneumothorax.'.
C6_Witness ==
    /\ Done
    /\ resident_paragraphs = <<NoPneumothorax>>
    /\ attending_paragraphs = <<SmallRightPneumothorax>>
    /\ Len(diff_html) = 1

\* The number of paragraphs the Equal opcodes cover.
EqualTotal(ops) ==
    LET eq == SelectSeq(ops, LAMBDA op : op[1] = "equal")
    IN  SumSizes([n \in 1..Len(eq) |-> <<eq[n][2], eq[n][4], eq[n][3] - eq[n][2]>>])

RECURSIVE LCSRow(_, _, _, _)
\* Row of the longest-common-subsequence table for one more element x of a:
\* entries 0..j, prev being the row before (entry j is at index j + 1).
LCSRow(prev, x, b, j) ==
    IF j = 0 THEN <<0>>
    ELSE LET cur == LCSRow(prev, x, b, j - 1)
             up  == prev[j + 1]
         IN  Append(cur, IF x = b[j] THEN prev[j] + 1
                         ELSE IF up > cur[j] THEN up ELSE cur[j])

RECURSIVE LCSTable(_, _, _)
LCSTable(a, b, i) ==
    IF i = 0 THEN [j \in 1..(Len(b) + 1) |-> 0]
    ELSE LCSRow(LCSTable(a, b, i - 1), a[i], b, Len(b))

\* The length of a longest common subsequence of a and b.
LCS(a, b) == LCSTable(a, b, Len(a))[Len(b) + 1]

Abs(n) == IF n < 0 THEN -n ELSE n

\* The tokens calculate_change_percentage compared for the case.
ResidentTokens == split(resident_report)

AttendingTokens == split(remove_attending_review_line(attending_report))

\* percentage_change is (1 - 2 * m / (tokens of both texts)) * 100 rounded to
\* two places (0 when there is no token at all).
ChangeIs(m) ==
    LET total == Len(ResidentTokens) + Len(AttendingTokens)
    IN  IF total = 0 THEN percentage_change = 0
        ELSE 2 * Abs(percentage_change * total - 10000 * (total - 2 * m)) <= total

Disjoint ==
    /\ resident_paragraphs # <<>>
    /\ attending_paragraphs # <<>>
    /\ Range(resident_paragraphs, 0, Len(resident_paragraphs))
           \cap Range(attending_paragraphs, 0, Len(attending_paragraphs)) = {}

\* C8 as claimed: identical non-empty sequences give one Equal opcode over
\* everything; sequences without a common paragraph give one Delete followed by
\* one Insert and no Replace.
C8_DeleteThenInsert ==
    Done =>
        /\ (resident_paragraphs # <<>> /\ resident_paragraphs = attending_paragraphs) =>
               opcodes = << <<"equal", 0, Len(resident_paragraphs),
                              0, Len(attending_paragraphs)>> >>
        /\ Disjoint =>
               /\ Len(opcodes) = 2
               /\ opcodes[1][1] = "delete"
               /\ opcodes[2][1] = "insert"

\* C8 amended: identical non-empty sequences give one Equal opcode over
\* everything; non-empty sequences without a common paragraph give one Replace
\* opcode over everything.
C8_Degenerate ==
    Done =>
        /\ (resident_paragraphs # <<>> /\ resident_paragraphs = attending_paragraphs) =>
               opcodes = << <<"equal", 0, Len(resident_paragraphs),
                              0, Len(attending_paragraphs)>> >>
        /\ Disjoint =>
               opcodes = << <<"replace", 0, Len(resident_paragraphs),
                              0, Len(attending_paragraphs)>> >>

\* Two sequences of two paragraphs or more without a common paragraph.
C8_Witness ==
    /\ Done
    /\ Disjoint
    /\ Len(resident_paragraphs) >= 2
    /\ Len(attending_paragraphs) >= 2

\* C9: the change percentage is round((1 - ratio) * 100, 2) with ratio =
\* 2 * M / (number of tokens of both texts), M being the tokens the Equal
\* opcodes of the word alignment cover (ratio 1 when there is no token); the
\* ratio lies in [0, 1] and the percentage in [0, 100].
C9_ChangePercentage ==
    pc \in {"measured", "result", "parsed"} =>
        LET m == EqualTotal(get_opcodes(ResidentTokens, AttendingTokens))
        IN  /\ ChangeIs(m)
            /\ 0 <= 2 * m
            /\ 2 * m <= Len(ResidentTokens) + Len(AttendingTokens)
            /\ 0 <= percentage_change
            /\ percentage_change <= 10000

\* A change percentage that had to be rounded up.
C9_Witness ==
    /\ pc = "measured"
    /\ percentage_change = 6667

\* Only blocks of class cls, and at least one.
OnlyBlocks(cls) ==
    /\ diff_html # <<>>
    /\ \A n \in 1..Len(diff_html) : diff_html[n].cls = cls

\* C10 as claimed: an empty text is not rejected; with exactly one text empty
\* the diff has only Delete blocks (attending empty) or only Insert blocks
\* (resident empty) and the change is 100.0, with both empty there is no block
\* and the change is 0.0.
C10_EmptyNotRejected ==
    /\ (resident_text = <<>> \/ attending_text = <<>>) => pc # "skipped"
    /\ (Done /\ resident_report # <<>> /\ attending_report = <<>>) =>
           OnlyBlocks("del") /\ percentage_change = 10000
    /\ (Done /\ resident_report = <<>> /\ attending_report # <<>>) =>
           OnlyBlocks("ins") /\ percentage_change = 10000
    /\ (Done /\ resident_report = <<>> /\ attending_report = <<>>) =>
           diff_html = <<>> /\ percentage_change = 0

\* C10 amended: the diff functions take an empty text: with the attending text
\* empty and the resident text holding a paragraph the diff has only Delete
\* blocks, one for each resident paragraph, and the change is 100.0; with the
\* resident text empty and the attending text holding a paragraph the diff has
\* only Insert blocks and the change is 100.0; with both empty there is no
\* block and the change is 0.0.  extract_cases however leaves out every case
\* whose resident or attending report is empty once stripped, and queues the
\* others.
C10_EmptyInput ==
    /\ (Done /\ attending_report = <<>> /\ resident_paragraphs # <<>>) =>
           /\ OnlyBlocks("del")
           /\ Len(diff_html) = Len(resident_paragraphs)
           /\ percentage_change = 10000
    /\ (Done /\ resident_report = <<>> /\ attending_paragraphs # <<>>) =>
           /\ OnlyBlocks("ins")
           /\ Len(diff_html) = Len(attending_paragraphs)
           /\ percentage_change = 10000
    /\ (Done /\ resident_report = <<>> /\ attending_report = <<>>) =>
           diff_html = <<>> /\ percentage_change = 0
    /\ pc = "skipped" => strip(resident_text) = <<>> \/ strip(attending_text) = <<>>
    /\ pc \in {"queued", "parsed"} =>
           strip(resident_text) # <<>> /\ strip(attending_text) # <<>>

\* A resident text of several paragraphs diffed against the empty text.
C10_Witness ==
    /\ pc = "result"
    /\ attending_report = <<>>
    /\ Len(diff_html) >= 2

\* The character similarity of two paragraphs is at least the 0.4 of the code.
Similar(p, q) ==
    LET sim == ratio(p, q) IN sim[1] * 10 >= SimilarityTenths * sim[2]

\* Resident paragraphs [A, B] face attending paragraphs [B', A'], four different
\* paragraphs with A ~ A' and B ~ B'.
Swapped ==
    /\ Len(resident_paragraphs) = 2
    /\ Len(attending_paragraphs) = 2
    /\ Cardinality({resident_paragraphs[1], resident_paragraphs[2],
                    attending_paragraphs[1], attending_paragraphs[2]}) = 4
    /\ Similar(resident_paragraphs[1], attending_paragraphs[2])
    /\ Similar(resident_paragraphs[2], attending_paragraphs[1])

\* Block n is a Replace block holding the word diff of paragraph p against q.
PairBlock(n, p, q) ==
    /\ diff_html[n].cls = "rep"
    /\ WordMarks(diff_html[n].spans, split(p), split(q))

\* The classes of the blocks a pair of paragraphs at the same position gives.
PairClasses(p, q) == IF Similar(p, q) THEN <<"rep">> ELSE <<"del", "ins">>

\* C11 as claimed: resident [A, B] against attending [B', A'] gives two Replace
\* blocks, one pairing A with A' and one pairing B with B'.
C11_PairedByContent ==
    (Done /\ Swapped) =>
        /\ Len(diff_html) = 2
        /\ \E n, m \in 1..Len(diff_html) :
               /\ n # m
               /\ PairBlock(n, resident_paragraphs[1], attending_paragraphs[2])
               /\ PairBlock(m, resident_paragraphs[2], attending_paragraphs[1])

\* C11 amended: unmatched paragraphs are paired by position inside their
\* Replace opcode, never by content: a Replace block holds the word diff of the
\* resident and the attending paragraph at the same offset of the opcode, and
\* resident [A, B] against attending [B', A'] pairs A with B' and then B with
\* A', each pair giving one Replace block when its character similarity is 0.4
\* or more and a Delete block followed by an Insert block otherwise.
C11_PairedByPosition ==
    Done =>
        /\ \A n \in 1..Len(diff_html) :
               diff_html[n].cls = "rep" =>
                   /\ \E k \in 1..Len(opcodes) :
                          /\ opcodes[k][1] = "replace"
                          /\ Belongs(n, k)
                          /\ ResidentRank(n) - opcodes[k][2]
                                 = AttendingRank(n) - opcodes[k][4]
                   /\ PairBlock(n, resident_paragraphs[ResidentRank(n)],
                                attending_paragraphs[AttendingRank(n)])
        /\ Swapped =>
               /\ [n \in 1..Len(diff_html) |-> diff_html[n].cls]
                      = PairClasses(resident_paragraphs[1], attending_paragraphs[1])
                        \o PairClasses(resident_paragraphs[2], attending_paragraphs[2])
               /\ ResidentRank(Len(diff_html)) = 2
               /\ AttendingRank(Len(diff_html)) = 2

\* [A, B] against [B', A'] where A resembles B' as well and B does not resemble
\* A': a Replace block of A with B', then B deleted and A' inserted.
C11_Witness ==
    /\ Done
    /\ Swapped
    /\ Len(diff_html) = 3
    /\ diff_html[1].cls = "rep"
    /\ diff_html[2].cls = "del"
    /\ diff_html[3].cls = "ins"

\* The token-overlap similarity of two paragraphs (2 * matched tokens / tokens
\* of both) is at least 0.60.
TokenSimilar(p, q) ==
    LET sim == ratio(split(p), split(q)) IN sim[1] * 10 >= 6 * sim[2]

\* C12 as claimed: two paragraphs are paired into a Replace block only when
\* their token-overlap similarity is 0.60 or more.
C12_TokenThreshold ==
    Done =>
        \A n \in 1..Len(diff_html) :
            diff_html[n].cls = "rep" =>
                TokenSimilar(resident_paragraphs[ResidentRank(n)],
                             attending_paragraphs[AttendingRank(n)])

\* C12 amended: two different paragraphs are paired into a Replace block only
\* when the character-level similarity ratio of the two is 0.4 or more; a pair
\* of a Replace opcode that scores below 0.4 is left unpaired, the resident
\* paragraph as a Delete block and the attending one as the Insert block that
\* follows it.
C12_CharThreshold ==
    Done =>
        /\ \A n \in 1..Len(diff_html) :
               diff_html[n].cls = "rep" =>
                   /\ resident_paragraphs[ResidentRank(n)]
                          # attending_paragraphs[AttendingRank(n)]
                   /\ Similar(resident_paragraphs[ResidentRank(n)],
                              attending_paragraphs[AttendingRank(n)])
        /\ \A k \in 1..Len(opcodes) :
               opcodes[k][1] = "replace" =>
                   \A idx \in 1..Len(resident_paragraphs) :
                       LET r == opcodes[k][2] + idx
                           t == opcodes[k][4] + idx
                       IN  (r <= opcodes[k][3] /\ t <= opcodes[k][5]
                            /\ ~Similar(resident_paragraphs[r],
                                        attending_paragraphs[t])) =>
                               \E n \in 1..(Len(diff_html) - 1) :
                                   /\ diff_html[n].cls = "del"
                                   /\ ResidentRank(n) = r
                                   /\ diff_html[n + 1].cls = "ins"
                                   /\ AttendingRank(n + 1) = t

\* A Replace block of two paragraphs whose token overlap is below 0.60, and a
\* pair below 0.4 left as a Delete and an Insert block.
C12_Witness ==
    /\ Done
    /\ \E n \in 1..Len(diff_html) :
           /\ diff_html[n].cls = "rep"
           /\ ~TokenSimilar(resident_paragraphs[ResidentRank(n)],
                            attending_paragraphs[AttendingRank(n)])
    /\ \E k \in 1..Len(opcodes) :
           /\ opcodes[k][1] = "replace"
           /\ opcodes[k][3] - opcodes[k][2] = 2
           /\ opcodes[k][5] - opcodes[k][4] = 2
           /\ ~Similar(resident_paragraphs[opcodes[k][3]],
                       attending_paragraphs[opcodes[k][5]])

\* The thresholds tried, in tenths: 0.0, 0.1, ..., 1.0.
Thresholds == 0..10

\* The number of Replace blocks among blocks.
RepCount(blocks) == Cardinality({n \in 1..Len(blocks) : blocks[n].cls = "rep"})

\* The diff of the two reports at that threshold, from the paragraphs and the
\* opcodes of the call.
DiffAt(threshold) ==
    Concat([o \in 1..Len(opcodes) |->
               opcode_blocks_at(threshold, resident_paragraphs,
                                attending_paragraphs, opcodes[o])])

\* The number of Replace blocks the two reports give at each threshold, as a
\* sequence: the number at threshold t is PairsAt[t + 1].
PairsAt ==
    Concat([n \in 1..Cardinality(Thresholds) |-> <<RepCount(DiffAt(n - 1))>>])

\* The counts, one for each threshold, never go up as the threshold goes up.
NonIncreasing(pairs) ==
    \A t1, t2 \in Thresholds : t1 <= t2 => pairs[t2 + 1] <= pairs[t1 + 1]

\* The counts are higher below the threshold of the code than at it, and lower
\* above it.
Decreasing(pairs) ==
    \E t1, t2 \in Thresholds :
        /\ t1 < SimilarityTenths
        /\ SimilarityTenths < t2
        /\ pairs[t1 + 1] > pairs[SimilarityTenths + 1]
        /\ pairs[SimilarityTenths + 1] > pairs[t2 + 1]

BoilerplateAt(text) ==
    LET lines == splitlines(text)
    IN  {i \in 1..Len(lines) : strip(lines[i]) \in excluded_lines}

\* text without its line number i.
DropLine(text, i) ==
    LET lines == splitlines(text)
    IN  Join(<<"\n">>, SubSeq(lines, 1, i - 1) \o SubSeq(lines, i + 1, Len(lines)))

\* Attending line number i adds nothing to the blocks nor to the change: both
\* are what they are for the attending text without that line.
AttendingLineIdle(i) ==
    /\ diff_html = create_diff_by_section(resident_report, DropLine(attending_report, i))
    /\ percentage_change = ChangeOf(resident_report, DropLine(attending_report, i))

\* The same for resident line number i.
ResidentLineIdle(i) ==
    /\ diff_html = create_diff_by_section(DropLine(resident_report, i), attending_report)
    /\ percentage_change = ChangeOf(DropLine(resident_report, i), attending_report)

\* The attending report extract_cases returns for display holds every
\* attestation line the attending text of the case had.
DisplayKeepsLines ==
    LET given == splitlines(ReplaceCR(ReplaceCRLF(attending_text)))
        shown == splitlines(attending_report)
    IN  \A i \in 1..Len(given) :
            strip(given[i]) \in excluded_lines =>
                \E j \in 1..Len(shown) : strip(shown[j]) = strip(given[i])

\* C14 as claimed: an attestation line adds nothing to the blocks and nothing
\* to the change percentage, in the resident text as in the attending text,
\* and the report returned for display still has it.
C14_EitherText ==
    Done =>
        /\ \A i \in BoilerplateAt(attending_report) : AttendingLineIdle(i)
        /\ \A i \in BoilerplateAt(resident_report) : ResidentLineIdle(i)
        /\ pc = "parsed" => DisplayKeepsLines

\* C14 amended: a line of the attending text that, trimmed, is an attestation
\* line adds nothing to the blocks and nothing to the change percentage, and no
\* attending paragraph holds such a line, while the attending report returned
\* for display still has it; in the resident text such a line is not dropped.
C14_AttendingBoilerplate ==
    Done =>
        /\ \A i \in BoilerplateAt(attending_report) : AttendingLineIdle(i)
        /\ \A n \in 1..Len(attending_paragraphs) :
               BoilerplateAt(attending_paragraphs[n]) = {}
        /\ \A n \in 1..Len(resident_paragraphs) :
               \A i \in BoilerplateAt(resident_paragraphs[n]) :
                   \E j \in BoilerplateAt(resident_report) :
                       strip(splitlines(resident_report)[j])
                           = strip(splitlines(resident_paragraphs[n])[i])
        /\ BoilerplateAt(resident_report) # {} =>
               \E n \in 1..Len(resident_paragraphs) :
                   BoilerplateAt(resident_paragraphs[n]) # {}
        /\ pc = "parsed" => DisplayKeepsLines

\* A parsed case whose attending report has two attestation lines or more, next
\* to other text.
C14_Witness ==
    /\ pc = "parsed"
    /\ Cardinality(BoilerplateAt(attending_report)) >= 2
    /\ attending_paragraphs # <<>>

\* The lines of a normalized text.
LinesOf(text) == SplitOn(text, "\n")

\* The lines of a text as it is given: "\r\n", "\r" and "\n" end a line.
GivenLines(text) == SplitOn(ReplaceCR(ReplaceCRLF(text)), "\n")

\* The characters of text that are not white space, in order.
Ink(text) == SelectSeq(text, LAMBDA c : c \notin Whitespace)

NoCarriageReturn(text) == \A i \in 1..Len(text) : text[i] # "\r"

NoTrailingBlank(text) ==
    \A i \in 1..Len(LinesOf(text)) :
        LET line == LinesOf(text)[i]
        IN  line = <<>> \/ line[Len(line)] \notin Whitespace

NoLeadingBlank(text) ==
    \A i \in 1..Len(LinesOf(text)) :
        LET line == LinesOf(text)[i]
        IN  line = <<>> \/ line[1] \notin Whitespace

\* No two empty lines follow each other.
NoEmptyRun(text) ==
    \A i \in 1..(Len(text) - 2) :
        ~(text[i] = "\n" /\ text[i + 1] = "\n" /\ text[i + 2] = "\n")

\* The text neither starts nor ends with an empty line.
NoOuterEmptyLine(text) ==
    text = <<>> \/ (text[1] # "\n" /\ text[Len(text)] # "\n")

\* The positions of the lines of the text given that are not blank.
InkedLines(text) ==
    {i \in 1..Len(GivenLines(text)) : Ink(GivenLines(text)[i]) # <<>>}

\* C15 as claimed: normalize_text gives the empty text for the empty text, and
\* its result has "\n" line ends only, no line with white space at its start
\* or at its end, and no two empty lines in a row.
C15_LinesTrimmed ==
    Done =>
        /\ resident_report = <<>> => resident_normalized = <<>>
        /\ \A text \in {resident_normalized, attending_normalized} :
               /\ NoCarriageReturn(text)
               /\ NoTrailingBlank(text)
               /\ NoLeadingBlank(text)
               /\ NoEmptyRun(text)

\* C15 amended: normalize_text gives the empty text for the empty text, and its
\* result has "\n" line ends only, no line with white space at its end, and no
\* empty line at its start or at its end; the lines between the first and the
\* last line that is not blank are all kept, the blank ones as empty lines and
\* the others with the white space they start with.
C15_Normalized ==
    Done =>
        /\ resident_report = <<>> => resident_normalized = <<>>
        /\ \A text \in {resident_normalized, attending_normalized} :
               /\ NoCarriageReturn(text)
               /\ NoTrailingBlank(text)
               /\ NoOuterEmptyLine(text)
        /\ LET given == GivenLines(resident_report)
               inked == InkedLines(resident_report)
           IN  IF inked = {}
               THEN resident_normalized = <<>>
               ELSE LET first == CHOOSE i \in inked : \A j \in inked : i <= j
                        last  == CHOOSE i \in inked : \A j \in inked : j <= i
                        lines == LinesOf(resident_normalized)
                    IN  /\ Len(lines) = last - first + 1
                        /\ \A i \in 1..Len(lines) :
                               LET line == given[first + i - 1]
                               IN  /\ Ink(lines[i]) = Ink(line)
                                   /\ lines[i] = SubSeq(line, 1, Len(lines[i]))

\* A text with a carriage return, whose normalized text has a line that starts
\* with white space.
C15_Witness ==
    /\ pc = "result"
    /\ ~NoCarriageReturn(resident_report)
    /\ ~NoLeadingBlank(resident_normalized)

\* The positions at which a run of lines that are not blank starts.
RunStarts(lines) ==
    {i \in 1..Len(lines) :
        Ink(lines[i]) # <<>> /\ (i = 1 \/ Ink(lines[i - 1]) = <<>>)}

\* The last line of the run that starts at line i.
RunEnd(lines, i) ==
    CHOOSE e \in i..Len(lines) :
        /\ \A k \in i..e : Ink(lines[k]) # <<>>
        /\ (e = Len(lines) \/ Ink(lines[e + 1]) = <<>>)

\* The runs of lines that are not blank, in order, each as one text without the
\* white space at the end of its lines and around it.
Runs(lines) ==
    [n \in 1..Cardinality(RunStarts(lines)) |->
        LET i == CHOOSE i \in RunStarts(lines) :
                     Cardinality({j \in RunStarts(lines) : j < i}) = n - 1
        IN  strip(Join(<<"\n">>,
                       [k \in 1..(RunEnd(lines, i) - i + 1) |-> rstrip(lines[i + k - 1])]))]

\* C16: the paragraphs are the pieces of the text between runs of one or more
\* blank lines, in the order of the text; every paragraph is non-empty and
\* neither starts nor ends with white space; a text of white space or blank
\* lines only has no paragraph.
C16_Paragraphs ==
    Done =>
        /\ \A units \in {resident_paragraphs, attending_paragraphs} :
               \A n \in 1..Len(units) :
                   /\ units[n] # <<>>
                   /\ units[n][1] \notin Whitespace
                   /\ units[n][Len(units[n])] \notin Whitespace
        /\ resident_paragraphs = Runs(LinesOf(resident_normalized))
        /\ attending_paragraphs = Runs(LinesOf(attending_normalized))
        /\ resident_paragraphs = Runs(GivenLines(resident_report))
        /\ Ink(resident_report) = <<>> => resident_paragraphs = <<>>

\* A text with a line of blanks between its two paragraphs.
C16_Witness ==
    /\ pc = "result"
    /\ Len(resident_paragraphs) = 2
    /\ \E i \in 1..Len(GivenLines(resident_report)) :
           /\ GivenLines(resident_report)[i] # <<>>
           /\ Ink(GivenLines(resident_report)[i]) = <<>>

\* The size bounds, in characters, a caller could set.
SizeBounds == 0..MaxSizeBound

\* One of the two texts of the case is longer than bound.
Oversized(bound) == Len(resident_text) > bound \/ Len(attending_text) > bound

\* C19 as claimed: for whatever size bound the caller sets, a case with a text
\* longer than the bound gets no change percentage and no diff.
C19_TooLargeRejected ==
    \A bound \in SizeBounds :
        Oversized(bound) => pc \notin {"measured", "result", "parsed"}

\* C19 amended: there is no size bound: texts of any size are diffed, and in
\* full: every character of the resident report that is not white space is in
\* the resident paragraphs, every such character of the attending text (its
\* attestation lines apart) in the attending paragraphs, and each paragraph has
\* its block; extract_cases leaves a case out only for a report that is empty.
C19_NoSizeBound ==
    /\ Done =>
           /\ Ink(Concat(resident_paragraphs)) = Ink(resident_report)
           /\ Ink(Concat(attending_paragraphs))
                  = Ink(remove_attending_review_line(attending_report))
           /\ Len(ResidentBlocks) = Len(resident_paragraphs)
           /\ Len(AttendingBlocks) = Len(attending_paragraphs)
    /\ pc = "skipped" => Ink(resident_text) = <<>> \/ Ink(attending_text) = <<>>

\* A parsed case with texts longer than every size bound tried, with three
\* paragraphs or more.
C19_Witness ==
    /\ pc = "parsed"
    /\ \A bound \in SizeBounds : Oversized(bound)
    /\ Len(resident_paragraphs) >= 3

\* What get_summary returned for the future as_completed gave k-th
ResultAt(k) == future_result[completed[k]]

\* The case number submitted with the future as_completed gave k-th
CaseNumAt(k) == cases_data[completed[k]].case_num

\* Every field of the record returned is in the record appended, as it was.
FieldsKept(k) ==
    \A key \in DOMAIN ResultAt(k) :
        /\ key \in DOMAIN structured_output[k]
        /\ structured_output[k][key] = ResultAt(k)[key]

\* The record appended is the record returned with a score added.
ScoreAdded(k) ==
    /\ DOMAIN structured_output[k] = DOMAIN ResultAt(k) \cup {"score"}
    /\ FieldsKept(k)

\* C17 as claimed: every record without a score gets one (3 for a major
\* finding, 1 for a minor one) and keeps its fields; a record with a score is
\* left as it is.
C17_EveryRecordScored ==
    \A k \in 1..Len(structured_output) :
        IF "score" \in DOMAIN ResultAt(k)
        THEN structured_output[k] = ResultAt(k)
        ELSE /\ ScoreAdded(k)
             /\ FindingsSized(ResultAt(k)) =>
                    structured_output[k]["score"] = score_of(ResultAt(k))

\* C17 amended: a record with a score is left as it is; a record without one
\* whose findings fields, where it has them, are lists gets score 3 * (major
\* findings) + (minor findings), a missing list counting as empty, and keeps
\* every field; a record without score with a findings field that is no list
\* (null) is replaced by an error record with the case number submitted.
C17_ScoreDefault ==
    \A k \in 1..Len(structured_output) :
        IF "score" \in DOMAIN ResultAt(k)
        THEN structured_output[k] = ResultAt(k)
        ELSE IF FindingsSized(ResultAt(k))
             THEN /\ ScoreAdded(k)
                  /\ structured_output[k]["score"] =
                         3 * Len(get(ResultAt(k), "major_findings",
                                     findings(0)).items)
                         + Len(get(ResultAt(k), "minor_findings",
                                   findings(0)).items)
             ELSE /\ DOMAIN structured_output[k] = {"case_number", "error"}
                  /\ structured_output[k]["case_number"] = CaseNumAt(k)

\* process_cases has returned a record that got a score above 0 for its major
\* findings, its minor findings missing, and a record replaced for a null
\* findings field.
C17_Witness ==
    /\ phase = "returned"
    /\ \E k \in 1..Len(structured_output) :
           /\ "score" \notin DOMAIN ResultAt(k)
           /\ "minor_findings" \notin DOMAIN ResultAt(k)
           /\ "major_findings" \in DOMAIN ResultAt(k)
           /\ FindingsSized(ResultAt(k))
           /\ structured_output[k]["score"] = 3 * MaxFindings
    /\ \E k \in 1..Len(structured_output) :
           /\ "score" \notin DOMAIN ResultAt(k)
           /\ ~FindingsSized(ResultAt(k))
           /\ "error" \in DOMAIN structured_output[k]

\* The record process_cases appended for the call submitted with the i-th case
RecordOfCall(i) == parsed_json_of(future_result[i], cases_data[i].case_num)

\* C20: every case extract_cases returns carries the summary, or the error, of
\* the call submitted for it, whatever the order the threads finished in, also
\* when two cases carry one case number and when the service echoes a case
\* number other than the one submitted.
C20_SummaryOfOwnCall ==
    phase = "returned" =>
        \A i \in 1..Len(parsed_cases) :
            /\ parsed_cases[i].case_text = cases_data[i].case_text
            /\ parsed_cases[i].summary = summary_fields(RecordOfCall(i)).summary
            /\ parsed_cases[i].summary_error =
                   summary_fields(RecordOfCall(i)).summary_error

\* C18: whatever the interleaving of the threads' calls, each thread gets
\* back what the two functions give for its texts when called alone, and no
\* step of a thread changes a local or a result of another thread's call.
C18_SameAsAlone ==
    \A t \in DOMAIN frames :
        /\ frames[t].pc # "called" =>
               returned[t].percentage_change =
                   calculate_change_percentage(
                       call_args[t][1],
                       remove_attending_review_line(call_args[t][2]))
        /\ frames[t].pc = "returned" =>
               returned[t].diff =
                   create_diff_by_section(call_args[t][1], call_args[t][2])
        /\ frames[t].pc = "called" =>
               frames[t] = NoLocals /\ returned[t] = NoResults

\* Two threads with different texts were both inside the loop of
\* create_diff_by_section, each with blocks in its diff_html and opcodes left,
\* and one has returned since while the other has not.
C18_Witness ==
    \E t, u \in DOMAIN frames :
        /\ call_args[t] # call_args[u]
        /\ frames[t].pc = "returned"
        /\ returned[t].diff # <<>>
        /\ frames[u].pc = "matched"
        /\ frames[u].taken > 0
        /\ frames[u].taken < Len(frames[u].opcodes)
        /\ Len(frames[t].opcodes) > 1

\* The record get_summary returned is an error record.
Failed(result) == "error" \in DOMAIN result

\* C21: when process_cases has returned, every call submitted has finished and
\* been taken once, structured_output holds one record for each case of
\* cases_data, and a call that failed has its error record there, with its
\* message and the case number submitted, next to the records of the others.
C21_OneRecordPerCase ==
    (phase = "returned" /\ cases_data # <<>>) =>
        /\ \A i \in 1..Len(cases_data) : future_state[i] = "collected"
        /\ Len(structured_output) = Len(cases_data)
        /\ Len(completed) = Len(cases_data)
        /\ {completed[k] : k \in 1..Len(completed)} = 1..Len(cases_data)
        /\ \A k \in 1..Len(structured_output) :
               Failed(ResultAt(k)) =>
                   /\ Failed(structured_output[k])
                   /\ structured_output[k]["error"] = ResultAt(k)["error"]
                   /\ structured_output[k]["case_number"] = CaseNumAt(k)

\* process_cases has returned for two cases; the call of the second finished
\* first, one call failed and the other gave a summary.
C21_Witness ==
    /\ phase = "returned"
    /\ Len(cases_data) = 2
    /\ completed = <<2, 1>>
    /\ \E k \in 1..2 : Failed(ResultAt(k))
    /\ \E k \in 1..2 : ~Failed(structured_output[k])

\* C22: the parsed cases extract_cases returns are the cases of cases_data,
\* one for each and in the order of cases_data, which is the order of the
\* cases in the text, whatever the order the calls finished in.
C22_InputOrder ==
    phase = "returned" =>
        /\ Len(parsed_cases) = Len(cases_data)
        /\ \A i \in 1..Len(cases_data) :
               /\ parsed_cases[i].case_num = cases_data[i].case_num
               /\ parsed_cases[i].case_text = cases_data[i].case_text

\* Two cases with different numbers, each answered under its own number, the
\* call of the second finished first: structured_output has them the other
\* way round.
C22_Witness ==
    /\ phase = "returned"
    /\ Len(cases_data) = 2
    /\ cases_data[1].case_num # cases_data[2].case_num
    /\ completed = <<2, 1>>
    /\ \A k \in 1..2 : str_case_number(structured_output[k]) = CaseNumAt(k)
    /\ str_case_number(structured_output[1]) = parsed_cases[2].case_num

\* The output item get_summary reads the arguments of: the first call of
\* summarize_radiology_report of the response (no element when there is none).
ToolCall ==
    IF service.raises # None \/ tool_calls(service.output) = {}
    THEN None
    ELSE Some(service.output[CHOOSE k \in tool_calls(service.output) :
                  \A j \in tool_calls(service.output) : k <= j])

\* The call of the service failed: it raised, its response has no call of the
\* tool, or the arguments of the call are no JSON.
ServiceFailed == ToolCall = None \/ ~ToolCall[1].arguments.decodes

Showing(n) ==
    [cls |-> diff_html[n].cls,
     res |-> IF diff_html[n].cls \in {"equal", "del", "rep"}
             THEN ResidentRank(n) ELSE 0,
     att |-> IF diff_html[n].cls \in {"equal", "ins", "rep"}
             THEN AttendingRank(n) ELSE 0]

\* The blocks of a Replace opcode over resident paragraphs a1+1..a2 and
\* attending paragraphs b1+1..b2, pair k (from 0): the two paragraphs at offset
\* k in one Replace block when they are similar, a Delete block and then an
\* Insert block when they are not, and past the shorter side a block for the
\* paragraph of the longer side alone.
ReplaceOffset(op, k) ==
    LET r == op[2] + k + 1
        a == op[4] + k + 1
    IN  IF r <= op[3] /\ a <= op[5]
        THEN IF Similar(resident_paragraphs[r], attending_paragraphs[a])
             THEN <<[cls |-> "rep", res |-> r, att |-> a]>>
             ELSE <<[cls |-> "del", res |-> r, att |-> 0],
                    [cls |-> "ins", res |-> 0, att |-> a]>>
        ELSE IF r <= op[3]
             THEN <<[cls |-> "del", res |-> r, att |-> 0]>>
             ELSE <<[cls |-> "ins", res |-> 0, att |-> a]>>

\* What the blocks of an opcode show, in order
OpcodeShows(op) ==
    LET p == op[3] - op[2]
        q == op[5] - op[4]
    IN  CASE op[1] = "equal" ->
                 [k \in 1..p |->
                     [cls |-> "equal", res |-> op[2] + k, att |-> op[4] + k]]
          [] op[1] = "delete" ->
                 [k \in 1..p |-> [cls |-> "del", res |-> op[2] + k, att |-> 0]]
          [] op[1] = "insert" ->
                 [k \in 1..q |-> [cls |-> "ins", res |-> 0, att |-> op[4] + k]]
          [] op[1] = "replace" ->
                 Concat([k \in 1..(IF p > q THEN p ELSE q) |->
                            ReplaceOffset(op, k - 1)])

\* The text block n has, for what it shows
BlockText(n) ==
    CASE diff_html[n].cls = "rep" ->
             PairBlock(n, resident_paragraphs[Showing(n).res],
                       attending_paragraphs[Showing(n).att])
      [] diff_html[n].cls = "ins" ->
             diff_html[n] = Para("ins", attending_paragraphs[Showing(n).att])
      [] OTHER ->
             diff_html[n] = Para(diff_html[n].cls,
                                 resident_paragraphs[Showing(n).res])

\* C24: the blocks of the diff are those of its opcodes in turn, and a Replace
\* opcode pairs its paragraphs by position: a pair with character similarity
\* 0.4 or more is one Replace block, any other pair a Delete block followed by
\* an Insert block, each paragraph past the shorter side its own Delete or
\* Insert block; every block holds the text of the paragraphs it shows, so
\* every paragraph of the run is in exactly one block.
C24_ReplaceRun ==
    Done =>
        /\ [n \in 1..Len(diff_html) |-> Showing(n)]
               = Concat([k \in 1..Len(opcodes) |-> OpcodeShows(opcodes[k])])
        /\ \A n \in 1..Len(diff_html) : BlockText(n)
        /\ \A k \in 1..Len(opcodes) :
               opcodes[k][1] = "replace" =>
                   /\ \A r \in (opcodes[k][2] + 1)..opcodes[k][3] :
                          Cardinality({n \in 1..Len(diff_html) :
                                          Showing(n).res = r}) = 1
                   /\ \A a \in (opcodes[k][4] + 1)..opcodes[k][5] :
                          Cardinality({n \in 1..Len(diff_html) :
                                          Showing(n).att = a}) = 1

\* A Replace opcode with more paragraphs on one side than on the other, one of
\* its pairs in a Replace block and another as a Delete and an Insert block.
C24_Witness ==
    /\ Done
    /\ \E k \in 1..Len(opcodes) :
           /\ opcodes[k][1] = "replace"
           /\ opcodes[k][3] - opcodes[k][2] # opcodes[k][5] - opcodes[k][4]
           /\ \E i, j \in 0..MaxParas :
                  /\ i # j
                  /\ opcodes[k][2] + j < opcodes[k][3]
                  /\ opcodes[k][4] + j < opcodes[k][5]
                  /\ opcodes[k][2] + i < opcodes[k][3]
                  /\ opcodes[k][4] + i < opcodes[k][5]
                  /\ Len(ReplaceOffset(opcodes[k], i)) = 1
                  /\ Len(ReplaceOffset(opcodes[k], j)) = 2

\* C27: the reports of a parsed case are the texts found under the labels of
\* the case, normalized, whatever the texts hold, "Resident Report: " or
\* "Attending Report:" inside a line included.
C27_ReportsRoundTrip ==
    pc = "parsed" =>
        /\ resident_report = normalize_text(strip(resident_text))
        /\ attending_report = normalize_text(strip(attending_text))

\* The calls of the service made so far are for these cases of the text.
Submitted == {cases_data[j].case_text : j \in DOMAIN future_state}

\* The cases of the text that are in the result
Returned == {parsed_cases[j].case_text : j \in 1..Len(parsed_cases)}

\* The cases of the text without a resident report or without an attending
\* report: the label is not there, or nothing is under it.
Incomplete == {i \in 1..Len(cases) : ~has_both_reports(cases[i])}

\* C25: a case without a resident report or without an attending report is
\* never submitted to the service and is not in the result; when every case
\* of the text is such a case, no call is made and the result is empty.
C25_IncompleteOmitted ==
    /\ Submitted \cap Incomplete = {}
    /\ Returned \cap Incomplete = {}
    /\ Incomplete = 1..Len(cases) =>
           /\ future_state = <<>>
           /\ structured_output = <<>>
           /\ parsed_cases = <<>>

\* extract_cases has returned for a text of two cases: the first has a
\* Resident label with nothing under it, the second has both reports and is
\* the one case submitted and returned.
C25_Witness ==
    /\ phase = "returned"
    /\ Len(cases) = 2
    /\ "resident" \in DOMAIN cases[1].label_to_text
    /\ "attending" \in DOMAIN cases[1].label_to_text
    /\ Incomplete = {1}
    /\ Submitted = {2}
    /\ Returned = {2}

\* The record extract_cases found for the i-th parsed case: the summary kept
\* under the number of the case, the empty dict when there is none.
RecordFound(i) ==
    get(summaries_by_case_num, parsed_cases[i].case_num, EmptyDict)

unified_line_endings(text) == ReplaceCR(ReplaceCRLF(text))

\* Two lists of paragraphs are as many, with the same tokens one by one.
SameParagraphs(left, right) ==
    /\ Len(left) = Len(right)
    /\ \A n \in 1..Len(left) : split(left[n]) = split(right[n])

\* C28: the paragraphs of the normalized text are those of the text with only
\* its line endings unified: as many, in the same order, each with the same
\* tokens; normalization merges no two paragraphs and splits none.
C28_BoundariesKept ==
    Done =>
        /\ resident_paragraphs = split_into_paragraphs(resident_normalized)
        /\ attending_paragraphs = split_into_paragraphs(attending_normalized)
        /\ SameParagraphs(
               resident_paragraphs,
               split_into_paragraphs(unified_line_endings(resident_report)))
        /\ SameParagraphs(
               attending_paragraphs,
               split_into_paragraphs(unified_line_endings(
                   remove_attending_review_line(attending_report))))

\* A text of two paragraphs or more that normalization changes: its
\* paragraphs are parted by a line of white space, which normalization empties.
C28_Witness ==
    /\ Done
    /\ Len(resident_paragraphs) >= 2
    /\ resident_normalized # unified_line_endings(resident_report)
    /\ find(unified_line_endings(resident_report), <<"\n", "\n">>) = -1
    /\ find(resident_normalized, <<"\n", "\n">>) # -1


\* The step after each mode in the cycle Case # -> Delta Change -> Score
Cycle == [number |-> "change", change |-> "score", score |-> "number"]

\* The last handler to run was a click on a sort button, by mouse or by key.
Activated == current # None

\* Both buttons show one mode.
ButtonsAgree ==
    /\ sortBtn.data_mode = sortBtnRail.data_mode
    /\ sortBtn.label = sortLabels[sortBtnRail.data_mode]

\* The mode shown is one step on from the mode the click found.
AdvancedOneStep == sortBtn.data_mode = Cycle[current[1]]

\* The cases of the list that have a number
Numbered == {k \in 1..Len(caseData) : parseInt(caseData[k].case_num) # NaN}

\* The list is in the order of the mode: by number going up among the cases
\* that have one, by change going down, by score going down with 0 for a case
\* that has none.
ListSorted(mode) ==
    \A i, j \in 1..Len(caseData) :
        i < j =>
            /\ mode = "number" /\ {i, j} \subseteq Numbered =>
                   parseInt(caseData[i].case_num)[1]
                       <= parseInt(caseData[j].case_num)[1]
            /\ mode = "change" =>
                   caseData[i].percentage_change
                       >= caseData[j].percentage_change
            /\ mode = "score" =>
                   or_zero(summary_score(caseData[i]))
                       >= or_zero(summary_score(caseData[j]))

CycleAndAgree == ButtonsAgree /\ (Activated => AdvancedOneStep)

\* Every case of the list has a number.
AllNumbered == Numbered = 1..Len(caseData)

\* The list is in order after a click when every case has a number.
SortedWhenNumbered ==
    Activated /\ AllNumbered => ListSorted(sortBtn.data_mode)

\* A click came back to Case # with a list of three the server numbered
\* 2, 10 and 1.
ClickedBackToNumber ==
    /\ Activated
    /\ sortBtn.data_mode = "number"
    /\ Len(caseData) = 3
    /\ AllNumbered
    /\ collapsed
====
